---- MODULE Spec2Model ----
(***************************************************************************)
(* cfn-drift-remediate: the template transformer, the CloudFormation      *)
(* client wrapper and the remediation orchestrator, as a state machine.   *)
(*                                                                         *)
(* JSON values are tagged records.  A JavaScript string is a sequence of  *)
(* pieces: literal text, a ${Name} / ${Name.Attr} placeholder, a dotted   *)
(* "Name.Attr" text, or the runtime value the control plane computed for  *)
(* a reference.  A JavaScript object is a sequence of key/value entries   *)
(* in insertion order, as is a Map.                                        *)
(***************************************************************************)
EXTENDS Integers, Sequences, FiniteSets, TLC

\* ------------------------------------------------------------ JSON values
Null == [t |-> "null"]
Undefined == [t |-> "undef"]
Num(n) == [t |-> "num", n |-> n]
Txt(x) == [k |-> "t", id |-> x, attr |-> ""]
Var(id, attr) == [k |-> "v", id |-> id, attr |-> attr]
Dotted(id, attr) == [k |-> "d", id |-> id, attr |-> attr]
Resolved(id, attr) == [k |-> "r", id |-> id, attr |-> attr]
Str(pieces) == [t |-> "str", s |-> pieces]
Lit(x) == Str(<<Txt(x)>>)
Arr(items) == [t |-> "arr", a |-> items]
Obj(entries) == [t |-> "obj", o |-> entries]
KV(key, val) == [k |-> key, v |-> val]

Range(seq) == {seq[i] : i \in 1..Len(seq)}
IsObj(v) == v.t = "obj"
IsArr(v) == v.t = "arr"
IsStr(v) == v.t = "str"
\* JavaScript truthiness of a value that is an object, an array, a function, a string,
\* a number or absent
Truthy(v) ==
  v.t \in {"obj", "arr", "fn"} \/ (v.t = "str" /\ v.s # <<>>) \/ (v.t = "num" /\ v.n # 0)

Has(v, key) == IsObj(v) /\ \E i \in 1..Len(v.o) : v.o[i].k = key
Get(v, key) == IF Has(v, key) THEN v.o[CHOOSE i \in 1..Len(v.o) : v.o[i].k = key].v ELSE Undefined
Put(v, key, val) ==
  IF Has(v, key)
  THEN Obj([i \in 1..Len(v.o) |-> IF v.o[i].k = key THEN KV(key, val) ELSE v.o[i]])
  ELSE Obj(Append(v.o, KV(key, val)))
Del(v, key) == Obj(SelectSeq(v.o, LAMBDA e : e.k # key))
Keys(v) == IF IsObj(v) THEN [i \in 1..Len(v.o) |-> v.o[i].k] ELSE <<>>
\* the logical id a string spells; "#" when it is not one plain text
PlainText(v) == IF IsStr(v) /\ Len(v.s) = 1 /\ v.s[1].k = "t" THEN v.s[1].id ELSE "#"

\* a Map in insertion order
MapHas(m, key) == \E i \in 1..Len(m) : m[i].k = key
MapGet(m, key) == IF MapHas(m, key) THEN m[CHOOSE i \in 1..Len(m) : m[i].k = key].v ELSE Undefined
MapSet(m, key, val) ==
  IF MapHas(m, key)
  THEN [i \in 1..Len(m) |-> IF m[i].k = key THEN KV(key, val) ELSE m[i]]
  ELSE Append(m, KV(key, val))
MapKeys(m) == [i \in 1..Len(m) |-> m[i].k]

RefKey(id) == <<"Ref", id>>
GetAttKey(id, attr) == <<"GetAtt", id, attr>>

RECURSIVE deepClone(_)
deepClone(v) ==
  IF IsArr(v)
  THEN Arr([i \in 1..Len(v.a) |-> IF v.a[i].t = "undef" THEN Null ELSE deepClone(v.a[i])])
  ELSE IF IsObj(v)
  THEN LET kept == SelectSeq(v.o, LAMBDA e : e.v.t # "undef")
       IN Obj([i \in 1..Len(kept) |-> KV(kept[i].k, deepClone(kept[i].v))])
  ELSE v

\* String(x) of a resolved value
ToPieces(v) ==
  IF IsStr(v) THEN v.s
  ELSE IF v.t = "undef" THEN <<Txt("undefined")>>
  ELSE IF v.t = "null" THEN <<Txt("null")>>
  ELSE <<Txt("[object Object]")>>

CFN_PSEUDO_REFS ==
  {"AWS::AccountId", "AWS::NotificationARNs", "AWS::NoValue", "AWS::Partition",
   "AWS::Region", "AWS::StackId", "AWS::StackName", "AWS::URLSuffix"}

IsPseudo(p) == p.attr = "" /\ p.id \in CFN_PSEUDO_REFS
SubKey(p) == IF p.attr # "" THEN GetAttKey(p.id, p.attr) ELSE RefKey(p.id)
\* the placeholder is replaced by the callback of resolveSubStringForm
SubReplaced(p, drifted, rv, collectMode) ==
  /\ p.k = "v"
  /\ ~IsPseudo(p)
  /\ p.id \in drifted
  /\ ~collectMode
  /\ MapHas(rv, SubKey(p))

RECURSIVE SubPiecesFirstOnly(_, _, _, _)
\* a replace that stops after the first placeholder it replaced
SubPiecesFirstOnly(pieces, drifted, rv, collectMode) ==
  IF pieces = <<>> THEN <<>>
  ELSE IF SubReplaced(Head(pieces), drifted, rv, collectMode)
  THEN ToPieces(MapGet(rv, SubKey(Head(pieces)))) \o Tail(pieces)
  ELSE <<Head(pieces)>> \o SubPiecesFirstOnly(Tail(pieces), drifted, rv, collectMode)

RECURSIVE SubPieces(_, _, _, _)
SubPieces(pieces, drifted, rv, collectMode) ==
  IF pieces = <<>> THEN <<>>
  ELSE LET p == Head(pieces)
           rest == SubPieces(Tail(pieces), drifted, rv, collectMode)
       IN IF SubReplaced(p, drifted, rv, collectMode)
          THEN ToPieces(MapGet(rv, SubKey(p))) \o rest
          ELSE <<p>> \o rest

resolveSubStringForm(templateStr, drifted, rv, collectMode) ==
  LET vars == SelectSeq(templateStr, LAMBDA p : p.k = "v")
      allResolved == \A i \in 1..Len(vars) : SubReplaced(vars[i], drifted, rv, collectMode)
      hasDriftedRefs == \E i \in 1..Len(vars) : ~IsPseudo(vars[i]) /\ vars[i].id \in drifted
      result == SubPieces(templateStr, drifted, rv, collectMode)
  IN IF collectMode \/ ~hasDriftedRefs THEN Obj(<<KV("Fn::Sub", Str(templateStr))>>)
     ELSE IF allResolved THEN Str(result)
     ELSE Obj(<<KV("Fn::Sub", Str(result))>>)

\* [logicalId, attributeName] of an Fn::GetAtt argument, <<>> when it has neither form
GetAttParts(getAtt) ==
  IF IsArr(getAtt) /\ Len(getAtt.a) = 2
  THEN <<PlainText(getAtt.a[1]), PlainText(getAtt.a[2])>>
  ELSE IF IsStr(getAtt)
  THEN IF Len(getAtt.s) = 1 /\ getAtt.s[1].k = "d"
       THEN <<getAtt.s[1].id, getAtt.s[1].attr>>
       ELSE <<PlainText(getAtt), "">>
  ELSE <<>>

\* resolved !== varValue: whether resolvePropertyValue returned another object
IdentityChanged(orig, resolved) ==
  IF ~(IsObj(orig) \/ IsArr(orig)) THEN FALSE
  ELSE IF IsArr(orig) THEN TRUE
  ELSE IF Has(orig, "Ref") /\ IsStr(Get(orig, "Ref")) THEN resolved # orig
  ELSE IF Has(orig, "Fn::GetAtt") THEN resolved # orig
  ELSE IF Has(orig, "Fn::Sub")
  THEN LET sv == Get(orig, "Fn::Sub") IN IsStr(sv) \/ (IsArr(sv) /\ Len(sv.a) = 2)
  ELSE TRUE

RECURSIVE resolvePropertyValue(_, _, _, _)
\* the tail of resolveSubArrayForm: what it returns for the processed string and map
SubArrayResult(templateStr, variableMap, newTemplateStr, resolvedMap, mapChanged, filteredMap) ==
  IF mapChanged \/ newTemplateStr # templateStr
  THEN IF filteredMap = <<>>
       THEN Obj(<<KV("Fn::Sub", Str(newTemplateStr))>>)
       ELSE Obj(<<KV("Fn::Sub", Arr(<<Str(newTemplateStr), Obj(filteredMap)>>))>>)
  ELSE Obj(<<KV("Fn::Sub", Arr(<<Str(templateStr), variableMap>>))>>)
SubArrayFiltered(templateStr, variableMap, entries, newTemplateStr, resolvedMap) ==
  SubArrayResult(templateStr, variableMap, newTemplateStr, resolvedMap,
                 \E i \in 1..Len(entries) : IdentityChanged(entries[i].v, resolvedMap[i].v),
                 SelectSeq(resolvedMap,
                           LAMBDA e : \E j \in 1..Len(newTemplateStr) : newTemplateStr[j] = Var(e.k, "")))
SubArrayProcessed(templateStr, variableMap, entries, processedStr, resolvedMap) ==
  SubArrayFiltered(templateStr, variableMap, entries,
                   IF IsStr(processedStr) THEN processedStr.s ELSE Get(processedStr, "Fn::Sub").s,
                   resolvedMap)
SubArrayEntries(templateStr, variableMap, entries, drifted, rv) ==
  SubArrayProcessed(templateStr, variableMap, entries,
                    resolveSubStringForm(templateStr, drifted, rv, FALSE),
                    [i \in 1..Len(entries) |->
                       KV(entries[i].k, resolvePropertyValue(entries[i].v, drifted, rv, FALSE))])
resolveSubArrayForm(templateStr, variableMap, drifted, rv, collectMode) ==
  IF collectMode THEN Obj(<<KV("Fn::Sub", Arr(<<Str(templateStr), variableMap>>))>>)
  ELSE SubArrayEntries(templateStr, variableMap,
                       IF IsObj(variableMap) THEN variableMap.o ELSE <<>>, drifted, rv)

resolvePropertyValue(value, drifted, rv, collectMode) ==
  IF ~(IsObj(value) \/ IsArr(value)) THEN value
  ELSE IF IsArr(value)
  THEN Arr([i \in 1..Len(value.a) |-> resolvePropertyValue(value.a[i], drifted, rv, collectMode)])
  ELSE IF Has(value, "Ref") /\ IsStr(Get(value, "Ref"))
  THEN LET refTarget == PlainText(Get(value, "Ref"))
       IN IF refTarget \in drifted /\ ~collectMode /\ MapHas(rv, RefKey(refTarget))
          THEN MapGet(rv, RefKey(refTarget))
          ELSE value
  ELSE IF Has(value, "Fn::GetAtt")
  THEN LET parts == GetAttParts(Get(value, "Fn::GetAtt"))
       IN IF parts # <<>> /\ parts[1] \in drifted /\ ~collectMode
             /\ MapHas(rv, GetAttKey(parts[1], parts[2]))
          THEN MapGet(rv, GetAttKey(parts[1], parts[2]))
          ELSE value
  ELSE IF Has(value, "Fn::Sub")
  THEN LET subValue == Get(value, "Fn::Sub")
       IN IF IsStr(subValue)
          THEN resolveSubStringForm(subValue.s, drifted, rv, collectMode)
          ELSE IF IsArr(subValue) /\ Len(subValue.a) = 2
          THEN resolveSubArrayForm(subValue.a[1].s, subValue.a[2], drifted, rv, collectMode)
          ELSE value
  ELSE Obj([i \in 1..Len(value.o) |->
              KV(value.o[i].k, resolvePropertyValue(value.o[i].v, drifted, rv, collectMode))])

\* The table after a collect-mode walk of value (resolvedValues.set in collect mode)
RECURSIVE CollectSeq(_, _, _)
RECURSIVE CollectValue(_, _, _)
RECURSIVE CollectSub(_, _, _)
CollectSub(pieces, drifted, table) ==
  IF pieces = <<>> THEN table
  ELSE LET p == Head(pieces)
       IN IF p.k = "v" /\ ~IsPseudo(p) /\ p.id \in drifted
          THEN CollectSub(Tail(pieces), drifted,
                 MapSet(table, SubKey(p),
                   IF p.attr # ""
                   THEN Obj(<<KV("Fn::GetAtt", Arr(<<Lit(p.id), Lit(p.attr)>>))>>)
                   ELSE Obj(<<KV("Ref", Lit(p.id))>>)))
          ELSE CollectSub(Tail(pieces), drifted, table)

\* the Map is filled as the walk goes: each value is visited with the table so far
CollectSeq(values, drifted, table) ==
  IF values = <<>> \/ Len(table) < 0 THEN table
  ELSE CollectSeq(Tail(values), drifted, CollectValue(Head(values), drifted, table))

CollectValue(value, drifted, table) ==
  IF ~(IsObj(value) \/ IsArr(value)) THEN table
  ELSE IF IsArr(value) THEN CollectSeq(value.a, drifted, table)
  ELSE IF Has(value, "Ref") /\ IsStr(Get(value, "Ref"))
  THEN LET refTarget == PlainText(Get(value, "Ref"))
       IN IF refTarget \in drifted
          THEN MapSet(table, RefKey(refTarget), Obj(<<KV("Ref", Lit(refTarget))>>))
          ELSE table
  ELSE IF Has(value, "Fn::GetAtt")
  THEN LET parts == GetAttParts(Get(value, "Fn::GetAtt"))
       IN IF parts # <<>> /\ parts[1] \in drifted
          THEN MapSet(table, GetAttKey(parts[1], parts[2]),
                 Obj(<<KV("Fn::GetAtt", Arr(<<Lit(parts[1]), Lit(parts[2])>>))>>))
          ELSE table
  ELSE IF Has(value, "Fn::Sub")
  THEN LET subValue == Get(value, "Fn::Sub")
       IN IF IsStr(subValue) THEN CollectSub(subValue.s, drifted, table)
          ELSE IF IsArr(subValue) /\ Len(subValue.a) = 2
          THEN CollectSub(subValue.a[1].s, drifted,
                 CollectSeq([i \in 1..Len(Keys(subValue.a[2])) |-> subValue.a[2].o[i].v],
                            drifted, table))
          ELSE table
  ELSE CollectSeq([i \in 1..Len(value.o) |-> value.o[i].v], drifted, table)

collectReferences(template, drifted) == CollectValue(template, drifted, <<>>)

\* --------------------------------------------------- template transformer
EMPTY_TEMPLATE ==
  Obj(<<KV("Conditions",
           Obj(<<KV("FalseCondition", Obj(<<KV("Fn::Equals", Arr(<<Num(1), Num(2)>>))>>))>>)),
        KV("Resources",
           Obj(<<KV("PlaceholderResource",
                    Obj(<<KV("Condition", Lit("FalseCondition")),
                          KV("Type", Lit("AWS::S3::Bucket"))>>))>>))>>)

\* template.Resources || {}
ResourcesOf(template) ==
  IF Truthy(Get(template, "Resources")) /\ IsObj(Get(template, "Resources"))
  THEN Get(template, "Resources")
  ELSE Obj(<<>>)
ResourceIds(template) == Range(Keys(ResourcesOf(template)))
MapEntries(obj, F(_, _)) == Obj([i \in 1..Len(obj.o) |-> KV(obj.o[i].k, F(obj.o[i].k, obj.o[i].v))])
WithResources(template, F(_, _)) ==
  IF Len(ResourcesOf(template).o) = 0 THEN template
  ELSE Put(template, "Resources", MapEntries(ResourcesOf(template), F))

\* a copy that leaves every DeletionPolicy as it is
withoutRetention(template) == deepClone(template)
setRetentionOnAllResources(template) ==
  WithResources(deepClone(template), LAMBDA id, r : Put(r, "DeletionPolicy", Lit("Retain")))

RECURSIVE hasUnresolvedReferences(_, _)
hasUnresolvedReferences(value, removed) ==
  IF ~(IsObj(value) \/ IsArr(value)) THEN FALSE
  ELSE IF IsArr(value) THEN \E i \in 1..Len(value.a) : hasUnresolvedReferences(value.a[i], removed)
  ELSE IF Has(value, "Ref") /\ IsStr(Get(value, "Ref")) THEN PlainText(Get(value, "Ref")) \in removed
  ELSE IF Has(value, "Fn::GetAtt")
          /\ LET g == Get(value, "Fn::GetAtt") IN (IsArr(g) /\ Len(g.a) >= 1) \/ IsStr(g)
  THEN LET g == Get(value, "Fn::GetAtt")
       IN IF IsArr(g) THEN PlainText(g.a[1]) \in removed
          ELSE IF Len(g.s) = 1 /\ g.s[1].k = "d" THEN g.s[1].id \in removed
          ELSE PlainText(g) \in removed
  ELSE IF Has(value, "Fn::Sub")
  THEN LET subValue == Get(value, "Fn::Sub")
           templateStr == IF IsStr(subValue) THEN subValue.s
                          ELSE IF IsArr(subValue) /\ Len(subValue.a) >= 1 /\ IsStr(subValue.a[1])
                          THEN subValue.a[1].s
                          ELSE <<>>
       IN \/ \E i \in 1..Len(templateStr) :
               /\ templateStr[i].k = "v"
               /\ ~IsPseudo(templateStr[i])
               /\ templateStr[i].id \in removed
          \/ /\ IsArr(subValue) /\ Len(subValue.a) = 2
             /\ hasUnresolvedReferences(subValue.a[2], removed)
  ELSE \E i \in 1..Len(value.o) : hasUnresolvedReferences(value.o[i].v, removed)

\* a cleaning that looks at the string form of DependsOn only
CleanDependsOnStringOnly(resource, drifted) ==
  IF IsStr(Get(resource, "DependsOn")) /\ PlainText(Get(resource, "DependsOn")) \in drifted
  THEN Del(resource, "DependsOn")
  ELSE resource
\* Step 3b of transformTemplateForRemoval, for one resource
CleanDependsOn(resource, drifted) ==
  LET dep == Get(resource, "DependsOn")
  IN IF ~Truthy(dep) THEN resource
     ELSE IF IsStr(dep)
     THEN IF PlainText(dep) \in drifted THEN Del(resource, "DependsOn") ELSE resource
     ELSE IF IsArr(dep)
     THEN LET kept == SelectSeq(dep.a, LAMBDA d : PlainText(d) \notin drifted)
          IN IF Len(kept) = 0 THEN Del(resource, "DependsOn")
             ELSE Put(resource, "DependsOn", Arr(kept))
     ELSE resource

\* Step 3c of transformTemplateForRemoval
CleanOutputs(template, drifted) ==
  IF ~Truthy(Get(template, "Outputs")) THEN template
  ELSE LET kept == SelectSeq(Get(template, "Outputs").o,
                             LAMBDA e : ~hasUnresolvedReferences(e.v, drifted))
       IN IF Len(kept) = 0 THEN Del(template, "Outputs")
          ELSE Put(template, "Outputs", Obj(kept))

\* Step 1 and 2 of transformTemplateForRemoval: retain, then resolve the references
ResolveResources(template, drifted, resolvedValues) ==
  WithResources(template,
    LAMBDA id, r :
      IF id \notin drifted /\ Truthy(Get(r, "Properties"))
      THEN Put(r, "Properties",
               resolvePropertyValue(Get(r, "Properties"), drifted, resolvedValues, FALSE))
      ELSE r)
ResolveOutputs(template, drifted, resolvedValues) ==
  IF Truthy(Get(template, "Outputs"))
  THEN Put(template, "Outputs",
           resolvePropertyValue(Get(template, "Outputs"), drifted, resolvedValues, FALSE))
  ELSE template
\* Step 3: remove the drifted resources, DependsOn entries and Outputs naming them
RemovedResources(template, driftedLogicalIds) ==
  SelectSeq(driftedLogicalIds, LAMBDA id : Truthy(Get(ResourcesOf(template), id)))
RemoveResources(template, removedResources) ==
  IF Has(template, "Resources") /\ IsObj(Get(template, "Resources"))
  THEN Put(template, "Resources",
           Obj(SelectSeq(ResourcesOf(template).o, LAMBDA e : e.k \notin Range(removedResources))))
  ELSE template
CleanTemplate(template, drifted) ==
  CleanOutputs(WithResources(template, LAMBDA id, r : CleanDependsOn(r, drifted)), drifted)
\* a removal that returns whatever is left, resources or not
OrAsIs(template) == template
OrEmpty(template) ==
  IF Len(ResourcesOf(template).o) = 0 THEN deepClone(EMPTY_TEMPLATE) ELSE template
Transformed(resolved, driftedLogicalIds, resolvedValues) ==
  [template |-> OrEmpty(CleanTemplate(RemoveResources(resolved,
                                                      RemovedResources(resolved, driftedLogicalIds)),
                                      Range(driftedLogicalIds))),
   removedResources |-> RemovedResources(resolved, driftedLogicalIds),
   resolvedReferences |-> resolvedValues]
transformTemplateForRemoval(template, driftedLogicalIds, resolvedValues) ==
  Transformed(ResolveOutputs(ResolveResources(setRetentionOnAllResources(deepClone(template)),
                                              Range(driftedLogicalIds), resolvedValues),
                             Range(driftedLogicalIds), resolvedValues),
              driftedLogicalIds, resolvedValues)

DriftResolveNames ==
  <<"DriftResolve0", "DriftResolve1", "DriftResolve2", "DriftResolve3",
    "DriftResolve4", "DriftResolve5", "DriftResolve6", "DriftResolve7">>
KeyPiece(key) == [k |-> key[1], id |-> key[2], attr |-> IF Len(key) = 3 THEN key[3] ELSE ""]

RECURSIVE AddOutputs(_, _, _)
AddOutputs(outputs, references, index) ==
  IF index > Len(references) THEN outputs
  ELSE AddOutputs(
         Put(outputs, DriftResolveNames[index],
             Obj(<<KV("Value", references[index].v),
                   KV("Description",
                      Str(<<Txt("Temporary output for resolving: "), KeyPiece(references[index].k)>>))>>)),
         references, index + 1)

addResolutionOutputs(template, references) ==
  LET result == deepClone(template)
      outputs == IF Truthy(Get(result, "Outputs")) THEN Get(result, "Outputs") ELSE Obj(<<>>)
  IN Put(result, "Outputs", AddOutputs(outputs, references, 1))

\* parseInt(OutputKey.replace('DriftResolve', ''), 10) of a name that starts with
\* DriftResolve; -1 stands for NaN. parseInt reads the leading digits and drops the rest.
DriftResolveIndex(name) ==
  IF \E i \in 1..Len(DriftResolveNames) : DriftResolveNames[i] = name
  THEN (CHOOSE i \in 1..Len(DriftResolveNames) : DriftResolveNames[i] = name) - 1
  ELSE IF name = "DriftResolve1x" THEN 1
  ELSE -1

RECURSIVE ParseOutputs(_, _, _)
ParseOutputs(outputs, refKeys, resolved) ==
  IF outputs = <<>> THEN resolved
  ELSE LET output == Head(outputs)
           index == DriftResolveIndex(output.OutputKey)
       IN ParseOutputs(Tail(outputs), refKeys,
            IF index >= 0 /\ index < Len(refKeys)
            THEN MapSet(resolved, refKeys[index + 1], output.OutputValue)
            ELSE resolved)

parseResolvedOutputs(outputs, references) == ParseOutputs(outputs, MapKeys(references), <<>>)

\* parseTemplate / stringifyTemplate: a template body is text in some format
Body(fmt, json) == [fmt |-> fmt, json |-> json]
parseTemplate(templateBody) == templateBody.json
stringifyTemplate(template) == Body("json-indent-2", deepClone(template))

\* ---------------------------------------------------- identifier resolver
\* eligible-resources: the static registry of importable types
getImportProperties(resourceType) ==
  CASE resourceType = "AWS::S3::Bucket" -> <<"BucketName">>
    [] resourceType = "AWS::ECS::Service" -> <<"ServiceArn", "Cluster">>
    [] resourceType = "AWS::DynamoDB::Table" -> <<"TableName">>
    [] resourceType = "AWS::RDS::DBInstance" -> <<"DBInstanceIdentifier">>
    [] resourceType = "AWS::Lambda::Function" -> <<"FunctionName">>
    [] resourceType = "AWS::Logs::LogGroup" -> <<"LogGroupName">>
    [] resourceType = "AWS::SNS::Topic" -> <<"TopicArn">>
    [] resourceType = "AWS::KinesisFirehose::DeliveryStream" -> <<"DeliveryStreamName">>
    [] resourceType = "AWS::ApiGateway::Stage" -> <<"RestApiId", "StageName">>
    [] OTHER -> <<>>
isResourceImportable(resourceType) == getImportProperties(resourceType) # <<>>

\* an ARN is one piece of a string; its resource part is a sequence of segments and separators
Arn(service, resourcePart) == Str(<<[k |-> "arn", id |-> service, attr |-> "", part |-> resourcePart]>>)
IsArn(physicalId) == IsStr(physicalId) /\ Len(physicalId.s) = 1 /\ physicalId.s[1].k = "arn"
parseArn(physicalId) == IF IsArn(physicalId) THEN physicalId.s[1] ELSE Null
PartStr(segs) == Str([i \in 1..Len(segs) |-> Txt(segs[i])])

ExtractionTypes ==
  {"AWS::S3::Bucket", "AWS::ECS::Service", "AWS::DynamoDB::Table", "AWS::RDS::DBInstance",
   "AWS::Lambda::Function", "AWS::Logs::LogGroup", "AWS::SNS::Topic"}
HasExtractionRule(resourceType) == resourceType \in ExtractionTypes
\* null as the result of an extraction rule, and as a descriptor
NoIdentifier == <<KV("#null", Null)>>
NoDescriptor == [ResourceType |-> "#null", LogicalResourceId |-> "#null", ResourceIdentifier |-> <<>>]
\* resourcePart.match(/^kind<sep>(.+)$/): match[1], or the whole part when it does not match
AfterKind(part, kind, sep) ==
  IF Len(part) >= 3 /\ part[1] = kind /\ part[2] = sep
  THEN SubSeq(part, 3, Len(part))
  ELSE part
\* the index of the first separator sep in part, 0 when there is none
FirstSep(part, sep) ==
  IF \E i \in 1..Len(part) : part[i] = sep
  THEN CHOOSE i \in 1..Len(part) : part[i] = sep /\ \A j \in 1..(i - 1) : part[j] # sep
  ELSE 0
\* what stands before the first separator sep, all of it when there is none
UpToSep(part, sep) ==
  IF FirstSep(part, sep) = 0 THEN part ELSE SubSeq(part, 1, FirstSep(part, sep) - 1)
\* parts = resourcePart.split(':'); parts.length >= 2 ? parts[1] : parts[0]
SecondField(part) ==
  IF FirstSep(part, ":") = 0 THEN part
  ELSE UpToSep(SubSeq(part, FirstSep(part, ":") + 1, Len(part)), ":")
\* the group of /^log-group:(.+?)(?::\*)?$/ for what follows "log-group:"
WithoutWildcard(name) ==
  IF Len(name) >= 3 /\ name[Len(name) - 1] = ":" /\ name[Len(name)] = "*"
  THEN SubSeq(name, 1, Len(name) - 2)
  ELSE name
LogGroupName(part) ==
  IF Len(part) >= 3 /\ part[1] = "log-group" /\ part[2] = ":"
  THEN WithoutWildcard(SubSeq(part, 3, Len(part)))
  ELSE part
\* EXTRACTION_RULES[resourceType](physicalId, parsed), for an identity that parsed
ArnRule(resourceType, physicalId, part) ==
  CASE resourceType = "AWS::S3::Bucket" -> <<KV("BucketName", PartStr(part))>>
    [] resourceType = "AWS::DynamoDB::Table" ->
         <<KV("TableName", PartStr(AfterKind(part, "table", "/")))>>
    [] resourceType = "AWS::RDS::DBInstance" ->
         <<KV("DBInstanceIdentifier", PartStr(AfterKind(part, "db", ":")))>>
    [] resourceType = "AWS::Lambda::Function" ->
         <<KV("FunctionName", PartStr(SecondField(part)))>>
    [] resourceType = "AWS::Logs::LogGroup" ->
         <<KV("LogGroupName", PartStr(LogGroupName(part)))>>
    [] resourceType = "AWS::SNS::Topic" -> <<KV("TopicArn", physicalId)>>
    [] OTHER -> \* AWS::ECS::Service: ^service\/([^/]+)\/(.+)$
         IF Len(part) >= 5 /\ part[1] = "service" /\ part[2] = "/"
            /\ part[3] # "/" /\ part[4] = "/"
         THEN <<KV("ServiceArn", physicalId), KV("Cluster", Lit(part[3]))>>
         ELSE NoIdentifier
\* the key a rule writes the raw identity to
RuleKey(resourceType) ==
  CASE resourceType = "AWS::S3::Bucket" -> "BucketName"
    [] resourceType = "AWS::DynamoDB::Table" -> "TableName"
    [] resourceType = "AWS::RDS::DBInstance" -> "DBInstanceIdentifier"
    [] resourceType = "AWS::Lambda::Function" -> "FunctionName"
    [] resourceType = "AWS::Logs::LogGroup" -> "LogGroupName"
    [] OTHER -> "TopicArn"
\* the same for an identity that is not an ARN
PlainRule(resourceType, physicalId) ==
  IF resourceType = "AWS::ECS::Service" THEN NoIdentifier
  ELSE <<KV(RuleKey(resourceType), physicalId)>>
\* a dispatch that takes every identity as a plain one
ExtractionRuleIgnoringArn(resourceType, physicalId, parsed) ==
  PlainRule(resourceType, physicalId)
ExtractionRule(resourceType, physicalId, parsed) ==
  IF parsed # Null
  THEN ArnRule(resourceType, physicalId, parsed.part)
  ELSE PlainRule(resourceType, physicalId)

buildIdentifierFromPhysicalId(resourceType, physicalId) ==
  IF HasExtractionRule(resourceType)
  THEN ExtractionRule(resourceType, physicalId, parseArn(physicalId))
  ELSE IF Len(getImportProperties(resourceType)) = 1
  THEN <<KV(getImportProperties(resourceType)[1], physicalId)>>
  ELSE NoIdentifier

\* dynamicIdentifiers?.get(type) || getImportProperties(type)
IdentifierProps(resourceType, dynamicIdentifiers) ==
  IF MapHas(dynamicIdentifiers, resourceType)
  THEN MapGet(dynamicIdentifiers, resourceType)
  ELSE getImportProperties(resourceType)

SpecialCaseProp(resourceType) ==
  CASE resourceType = "AWS::S3::Bucket" -> "BucketName"
    [] resourceType = "AWS::SQS::Queue" -> "QueueUrl"
    [] resourceType = "AWS::SNS::Topic" -> "TopicArn"
    [] resourceType = "AWS::Lambda::Function" -> "FunctionName"
    [] resourceType = "AWS::DynamoDB::Table" -> "TableName"
    [] resourceType = "AWS::EC2::SecurityGroup" -> "GroupId"
    [] resourceType = "AWS::Logs::LogGroup" -> "LogGroupName"
    [] resourceType = "AWS::IAM::Role" -> "RoleName"
    [] resourceType = "AWS::ECS::Cluster" -> "ClusterName"
    [] resourceType = "AWS::ECS::Service" -> "ServiceArn"
    [] OTHER -> "#"

fillSpecialCases(resource, identifier, remainingProps) ==
  LET prop == SpecialCaseProp(resource.resourceType)
      withPhys == IF prop \in Range(remainingProps) /\ Truthy(resource.physicalResourceId)
                  THEN MapSet(identifier, prop, resource.physicalResourceId)
                  ELSE identifier
  IN IF resource.resourceType = "AWS::ECS::Service" /\ "Cluster" \in Range(remainingProps)
        /\ Truthy(Get(resource.actualProperties, "Cluster"))
     THEN MapSet(withPhys, "Cluster", Str(ToPieces(Get(resource.actualProperties, "Cluster"))))
     ELSE withPhys

buildResourceIdentifier(resource, identifierProps) ==
  LET ctx == resource.physicalResourceIdContext
      InCtx(prop) == \E i \in 1..Len(ctx) : ctx[i].key = prop
      CtxValue(prop) == ctx[CHOOSE i \in 1..Len(ctx) :
                              ctx[i].key = prop /\ \A j \in (i + 1)..Len(ctx) : ctx[j].key # prop].value
      afterCtx == SelectSeq(identifierProps, LAMBDA prop : ~InCtx(prop))
      fromCtx == SelectSeq(identifierProps, InCtx)
      actual == resource.actualProperties
      InActual(prop) == Has(actual, prop) /\ Get(actual, prop).t \notin {"undef", "null"}
      fromActual == SelectSeq(afterCtx, InActual)
      afterActual == SelectSeq(afterCtx, LAMBDA prop : ~InActual(prop))
      filled == [i \in 1..Len(fromCtx) |-> KV(fromCtx[i], CtxValue(fromCtx[i]))]
                \o [i \in 1..Len(fromActual) |->
                      KV(fromActual[i], Str(ToPieces(Get(actual, fromActual[i]))))]
      usePhysical == Len(afterActual) = 1 /\ Truthy(resource.physicalResourceId)
      identifier == IF usePhysical
                    THEN MapSet(filled, afterActual[1], resource.physicalResourceId)
                    ELSE filled
      remainingProps == IF usePhysical THEN <<>> ELSE afterActual
  IN IF Len(remainingProps) > 0
     THEN fillSpecialCases(resource, identifier, remainingProps)
     ELSE identifier

ToImport(resource, identifier) ==
  [ResourceType |-> resource.resourceType,
   LogicalResourceId |-> resource.logicalResourceId,
   ResourceIdentifier |-> identifier]

\* whether buildResourcesToImport pushes the resource to importable
IsImportable(resource, dynamicIdentifiers) ==
  /\ isResourceImportable(resource.resourceType)
  /\ Len(IdentifierProps(resource.resourceType, dynamicIdentifiers)) # 0
  /\ Len(buildResourceIdentifier(resource,
           IdentifierProps(resource.resourceType, dynamicIdentifiers))) # 0

buildResourcesToImport(driftedResources, dynamicIdentifiers) ==
  LET ok == SelectSeq(driftedResources, LAMBDA r : IsImportable(r, dynamicIdentifiers))
  IN [importable |-> [i \in 1..Len(ok) |->
                        ToImport(ok[i], buildResourceIdentifier(ok[i],
                                   IdentifierProps(ok[i].resourceType, dynamicIdentifiers)))],
      skipped |-> SelectSeq(driftedResources, LAMBDA r : ~IsImportable(r, dynamicIdentifiers))]

buildReimportDescriptor(resource, userProvidedPhysicalId, dynamicIdentifiers) ==
  LET identifier == buildIdentifierFromPhysicalId(resource.resourceType, userProvidedPhysicalId)
      requiredProps == IdentifierProps(resource.resourceType, dynamicIdentifiers)
  IN IF identifier = NoIdentifier THEN NoDescriptor
     ELSE IF \A i \in 1..Len(requiredProps) : MapHas(identifier, requiredProps[i])
     THEN ToImport(resource, identifier)
     ELSE NoDescriptor

\* ------------------------------------------------ interactive decisions
SelectIdx(seq, P(_)) ==
  LET idx == SelectSeq([i \in 1..Len(seq) |-> i], P)
  IN [j \in 1..Len(idx) |-> seq[idx[j]]]

\* choiceM[i], choiceD[i]: the action the user picks for the i-th modified / deleted resource
promptForDecisions(modifiedResources, deletedResources, autoAccept, choiceM, choiceD, confirmed) ==
  LET KindM(i) == IF autoAccept THEN "autofix" ELSE choiceM[i].kind
      KindD(i) == IF autoAccept THEN "remove" ELSE choiceD[i].kind
      reimportIdx == SelectSeq([i \in 1..Len(deletedResources) |-> i], LAMBDA i : KindD(i) = "reimport")
  IN IF ~autoAccept /\ ~confirmed
     THEN [autofix |-> <<>>, reimport |-> <<>>, remove |-> <<>>,
           skip |-> modifiedResources \o deletedResources]
     ELSE [autofix |-> SelectIdx(modifiedResources, LAMBDA i : KindM(i) = "autofix"),
           reimport |-> [j \in 1..Len(reimportIdx) |->
                           [resource |-> deletedResources[reimportIdx[j]],
                            physicalId |-> choiceD[reimportIdx[j]].physicalId]],
           remove |-> SelectIdx(modifiedResources, LAMBDA i : KindM(i) = "remove")
                      \o SelectIdx(deletedResources, LAMBDA i : KindD(i) = "remove"),
           skip |-> SelectIdx(modifiedResources, LAMBDA i : KindM(i) = "skip")
                    \o SelectIdx(deletedResources, LAMBDA i : KindD(i) = "skip")]

\* ------------------------------------------------------------- inputs
MaxDetectPolls == 3

TemplateFull ==
  Obj(<<KV("Parameters", Obj(<<KV("Env", Obj(<<KV("Type", Lit("String"))>>))>>)),
        KV("Resources",
           Obj(<<KV("A", Obj(<<KV("Type", Lit("AWS::S3::Bucket")),
                               KV("Properties", Obj(<<KV("BucketName", Lit("bucket-a"))>>))>>)),
                 KV("B", Obj(<<KV("Type", Lit("AWS::ECS::Service")),
                               KV("DeletionPolicy", Lit("Delete")),
                               KV("DependsOn", Lit("A")),
                               KV("Properties",
                                  Obj(<<KV("Bucket", Obj(<<KV("Ref", Lit("A"))>>))>>))>>)),
                 KV("C", Obj(<<KV("Type", Lit("Custom::Thing")),
                               KV("Properties",
                                  Obj(<<KV("Name",
                                           Obj(<<KV("Fn::GetAtt",
                                                    Arr(<<Lit("A"), Lit("Arn")>>))>>))>>))>>))>>)),
        KV("Outputs",
           Obj(<<KV("Out",
                    Obj(<<KV("Value",
                             Obj(<<KV("Fn::Sub",
                                      Str(<<Var("A", ""), Txt("-"),
                                            Var("AWS::Region", "")>>))>>))>>))>>))>>)

TemplateSingle ==
  Obj(<<KV("Resources",
           Obj(<<KV("A", Obj(<<KV("Type", Lit("AWS::S3::Bucket")),
                               KV("DeletionPolicy", Lit("Retain")),
                               KV("Properties", Obj(<<KV("BucketName", Lit("bucket-a"))>>))>>))>>))>>)

OriginalTemplates == {TemplateFull, TemplateSingle}
StackParameters == <<[ParameterKey |-> "Env", ParameterValue |-> "prod"]>>

Drifted(id, type, status, physicalId, actual) ==
  [logicalResourceId |-> id, resourceType |-> type, physicalResourceId |-> physicalId,
   stackResourceDriftStatus |-> status, actualProperties |-> actual,
   physicalResourceIdContext |-> <<>>]

ServiceArn == Arn("ecs", <<"service", "/", "c1", "/", "svc">>)
\* what drift detection can report for one resource; <<>> when it is in sync
DriftChoices(id, type) ==
  CASE type = "AWS::S3::Bucket" ->
         {<<>>,
          <<Drifted(id, type, "MODIFIED", Lit("bucket-a"),
                    Obj(<<KV("BucketName", Lit("bucket-a")), KV("Versioning", Lit("on"))>>))>>,
          <<Drifted(id, type, "DELETED", Lit("bucket-a"), Undefined)>>}
    [] type = "AWS::ECS::Service" ->
         {<<>>,
          <<Drifted(id, type, "MODIFIED", ServiceArn, Obj(<<KV("Cluster", Lit("c1"))>>))>>,
          <<Drifted(id, type, "MODIFIED", Str(<<>>), Undefined)>>,
          <<Drifted(id, type, "DELETED", ServiceArn, Undefined)>>}
    [] OTHER -> {<<>>, <<Drifted(id, type, "MODIFIED", Lit("custom"), Undefined)>>}

RECURSIVE DriftReportsOf(_, _)
DriftReportsOf(resources, i) ==
  IF i > Len(resources.o) THEN {<<>>}
  ELSE {head \o tail :
          head \in DriftChoices(resources.o[i].k, PlainText(Get(resources.o[i].v, "Type"))),
          tail \in DriftReportsOf(resources, i + 1)}
DriftReports(template) == DriftReportsOf(ResourcesOf(template), 1)

ModifiedChoices == {[kind |-> k, physicalId |-> Str(<<>>)] : k \in {"autofix", "skip", "remove"}}
DeletedChoices ==
  {[kind |-> k, physicalId |-> Str(<<>>)] : k \in {"remove", "skip"}}
  \cup {[kind |-> "reimport", physicalId |-> id] : id \in {Lit("svc"), ServiceArn}}
DynamicIdentifierChoices == {<<>>, <<KV("AWS::S3::Bucket", <<"BucketName">>)>>}

\* --------------------------------------------------------------- state
VARIABLES
  pc,                    \* where remediate is: the external call it awaits next
  options,               \* RemediationOptions: dryRun, yes
  result,                \* RemediationResult
  stage,                 \* which mutating step owns the current client call
  attempts,              \* the attempts counter of the running wait loop
  maxWaitMinutes,        \* the maxWaitMinutes argument of the running wait loop
  detectPolls,           \* polls made by waitForDriftDetection (capped at MaxDetectPolls)
  sleepTick,             \* flips at every sleep(5000) of waitForDriftDetection
  applied,               \* control plane: the template the stack runs on
  pending,               \* control plane: the template body of the operation in progress
  stackStatus,           \* control plane: StackStatus
  changeSetStatus,       \* control plane: Status of the import change set
  stackInfo,             \* locals of remediate
  detectionResult,
  originalTemplateBody,
  allDriftedResources,
  decisions,
  allImportable,
  logicalIdsToRemove,
  retainTemplate,
  resolvedValues,
  checkpoints,           \* the recovery checkpoint files written
  calls,                 \* the mutating calls sent to the control plane, in order
  last,                  \* how the last mutating client call ended
  given,                 \* a library function called on its own: the caller's arguments
  outcome                \* and what the call returned

vars ==
  <<pc, options, result, stage, attempts, maxWaitMinutes, detectPolls, sleepTick, applied, pending, stackStatus,
    changeSetStatus, stackInfo, detectionResult, originalTemplateBody, allDriftedResources, decisions,
    allImportable, logicalIdsToRemove, retainTemplate, resolvedValues, checkpoints, calls, last,
    given, outcome>>

control == <<pc, result, stage>>
plane == <<applied, pending, stackStatus, changeSetStatus>>
rest ==
  <<stackInfo, originalTemplateBody, allDriftedResources, decisions, allImportable, logicalIdsToRemove,
    retainTemplate, resolvedValues>>
locals ==
  <<stackInfo, detectionResult, originalTemplateBody, allDriftedResources, decisions, allImportable, logicalIdsToRemove,
    retainTemplate, resolvedValues>>
loops == <<attempts, maxWaitMinutes, detectPolls, sleepTick>>
history == <<checkpoints, calls, last>>

NoDecisions == [autofix |-> <<>>, reimport |-> <<>>, remove |-> <<>>, skip |-> <<>>]
NoCall == [op |-> "none", cause |-> "none", returned |-> TRUE, polls |-> 0]

Init ==
  /\ pc = "getStackInfo"
  /\ options \in [dryRun : BOOLEAN, yes : BOOLEAN]
  /\ result = [success |-> FALSE, remediatedResources |-> <<>>, skippedResources |-> <<>>,
               removedResources |-> <<>>, errors |-> <<>>]
  /\ stage = "none"
  /\ attempts = 0
  /\ maxWaitMinutes = 0
  /\ detectPolls = 0
  /\ sleepTick = FALSE
  /\ applied \in OriginalTemplates
  /\ pending = Null
  /\ stackStatus = "UPDATE_COMPLETE"
  /\ changeSetStatus = "NONE"
  /\ stackInfo = [parameters |-> <<>>]
  /\ detectionResult = [status |-> "NONE", driftStatus |-> "NONE"]
  /\ originalTemplateBody = Null
  /\ allDriftedResources = <<>>
  /\ decisions = NoDecisions
  /\ allImportable = <<>>
  /\ logicalIdsToRemove = <<>>
  /\ retainTemplate = Null
  /\ resolvedValues = <<>>
  /\ checkpoints = <<>>
  /\ calls = <<>>
  /\ last = NoCall
  /\ given = Null
  /\ outcome = Null

Error(text, phrase) == [msg |-> text, phrase |-> phrase, after |-> 0]
\* the catch block of remediate: errors.push(message); return result
Fail(error) ==
  /\ result' = [result EXCEPT !.errors = Append(@, error)]
  /\ pc' = "done"
  /\ UNCHANGED stage
Goto(next) == pc' = next /\ UNCHANGED <<result, stage>>
Succeed(res) == result' = [res EXCEPT !.success = TRUE] /\ pc' = "done" /\ UNCHANGED stage

LogicalIds(resources) == [i \in 1..Len(resources) |-> resources[i].logicalResourceId]
\* new Set([...]) / includes-guarded push: first occurrences, in order
Dedupe(seq) == SelectIdx(seq, LAMBDA i : \A j \in 1..(i - 1) : seq[j] # seq[i])

originalTemplate == parseTemplate(originalTemplateBody)
modifiedResources ==
  SelectSeq(allDriftedResources,
            LAMBDA r : isResourceImportable(r.resourceType) /\ r.stackResourceDriftStatus # "DELETED")
deletedResources ==
  SelectSeq(allDriftedResources,
            LAMBDA r : isResourceImportable(r.resourceType) /\ r.stackResourceDriftStatus = "DELETED")

\* Step 1: getStackInfo(options.stackName)
PlaneParameters == IF Truthy(Get(applied, "Parameters")) THEN StackParameters ELSE <<>>
GetStackInfo ==
  /\ pc = "getStackInfo"
  /\ \E found \in BOOLEAN :
       IF found
       THEN stackInfo' = [parameters |-> PlaneParameters] /\ Goto("getTemplate")
       ELSE Fail(Error("Stack not found", FALSE)) /\ UNCHANGED stackInfo
  /\ UNCHANGED <<given, outcome, options, plane, detectionResult, originalTemplateBody, allDriftedResources,
                 decisions, allImportable, logicalIdsToRemove, retainTemplate, resolvedValues, loops,
                 history>>

\* Step 1: getTemplate(stackId, true) and parseTemplate
GetTemplate ==
  /\ pc = "getTemplate"
  /\ \E ok \in BOOLEAN :
       IF ok
       THEN originalTemplateBody' = Body("yaml", applied) /\ Goto("detectDrift")
       ELSE /\ Fail(Error("Could not retrieve template for stack", FALSE))
            /\ UNCHANGED originalTemplateBody
  /\ UNCHANGED <<given, outcome, options, plane, stackInfo, detectionResult, allDriftedResources, decisions, allImportable,
                 logicalIdsToRemove, retainTemplate, resolvedValues, loops, history>>

\* Step 2: detectDrift(stackId)
DetectDrift ==
  /\ pc = "detectDrift"
  /\ \E started \in BOOLEAN :
       IF started THEN Goto("waitDetect") ELSE Fail(Error("Failed to start drift detection", FALSE))
  /\ UNCHANGED <<given, outcome, options, plane, locals, loops, history>>

DetectionResponses ==
  {[status |-> "DETECTION_IN_PROGRESS", driftStatus |-> "NONE"],
   [status |-> "DETECTION_COMPLETE", driftStatus |-> "IN_SYNC"],
   [status |-> "DETECTION_COMPLETE", driftStatus |-> "DRIFTED"],
   [status |-> "DETECTION_FAILED", driftStatus |-> "NONE"],
   [status |-> "UNKNOWN", driftStatus |-> "NONE"]}

\* one iteration of the loop of waitForDriftDetection, and what remediate does with its result
PollDetection ==
  /\ pc = "waitDetect"
  /\ \E response \in DetectionResponses :
       IF response.status = "DETECTION_IN_PROGRESS"
       THEN /\ Goto("waitDetect")
            /\ detectPolls' = IF detectPolls < MaxDetectPolls THEN detectPolls + 1 ELSE detectPolls
            /\ sleepTick' = ~sleepTick
            /\ UNCHANGED detectionResult
       ELSE /\ detectPolls' = 0
            /\ sleepTick' = FALSE
            /\ detectionResult' = response
            /\ CASE response.status = "DETECTION_FAILED" ->
                      Fail(Error("Drift detection failed", FALSE))
                 [] response.status # "DETECTION_COMPLETE" ->
                      Fail(Error("Drift detection did not complete", FALSE))
                 [] response.driftStatus = "IN_SYNC" -> Succeed(result)
                 [] OTHER -> Goto("getDrifted")
  /\ UNCHANGED <<given, outcome, options, plane, rest, attempts, maxWaitMinutes, history>>

\* Step 3: getDriftedResources and the importable filter
GetDriftedResources ==
  /\ pc = "getDrifted"
  /\ \/ /\ Fail(Error("DescribeStackResourceDrifts failed", FALSE))
        /\ UNCHANGED allDriftedResources
     \/ \E report \in DriftReports(originalTemplate) :
          LET skipped == LogicalIds(SelectSeq(report, LAMBDA r : ~isResourceImportable(r.resourceType)))
              withSkipped == [result EXCEPT !.skippedResources = @ \o skipped]
          IN /\ allDriftedResources' = report
             /\ IF Len(report) = 0 THEN Succeed(result)
                ELSE IF Len(skipped) = Len(report)
                THEN /\ result' = [withSkipped EXCEPT !.errors =
                                     Append(@, Error("All drifted resources are not eligible for import", FALSE))]
                     /\ pc' = "done"
                     /\ UNCHANGED stage
                ELSE result' = withSkipped /\ pc' = "prompt" /\ UNCHANGED stage
  /\ UNCHANGED <<given, outcome, options, plane, stackInfo, detectionResult, originalTemplateBody, decisions, allImportable,
                 logicalIdsToRemove, retainTemplate, resolvedValues, loops, history>>

\* a check that takes a skip for an action
NothingSelectedAtAll(d) ==
  Len(d.autofix) = 0 /\ Len(d.reimport) = 0 /\ Len(d.remove) = 0 /\ Len(d.skip) = 0
\* "If everything was skipped or cancelled, we're done"
NothingSelected(d) == Len(d.autofix) = 0 /\ Len(d.reimport) = 0 /\ Len(d.remove) = 0

\* Step 4: promptForDecisions, and the skip bookkeeping
Prompt ==
  /\ pc = "prompt"
  /\ \E tty \in BOOLEAN, confirmed \in BOOLEAN,
        choiceM \in [1..Len(modifiedResources) -> ModifiedChoices],
        choiceD \in [1..Len(deletedResources) -> DeletedChoices] :
       IF ~options.yes /\ ~tty
       THEN /\ Fail(Error("Interactive mode requires a terminal", FALSE))
            /\ UNCHANGED decisions
       ELSE LET d == promptForDecisions(modifiedResources, deletedResources, options.yes,
                                        choiceM, choiceD, confirmed)
                withSkipped == [result EXCEPT !.skippedResources = @ \o LogicalIds(d.skip)]
            IN /\ decisions' = d
               /\ IF NothingSelected(d)
                  THEN Succeed(withSkipped)
                  ELSE result' = withSkipped /\ pc' = "getIdentifiers" /\ UNCHANGED stage
  /\ UNCHANGED <<given, outcome, options, plane, stackInfo, detectionResult, originalTemplateBody, allDriftedResources,
                 allImportable, logicalIdsToRemove, retainTemplate, resolvedValues, loops, history>>

\* a run that does not honour the flag
IsDryRunIgnored(o) == FALSE
\* "Dry run - show what would be done"
IsDryRun(o) == o.dryRun

\* a run that gives up as soon as one selected resource could not be identified
IsStuckOnAnySkip(importable, remove) ==
  \/ Len(importable) = 0 /\ Len(remove) = 0
  \/ Len(importable) < Len(decisions.autofix) + Len(decisions.reimport)
\* "If nothing to import AND nothing to remove, we're stuck"
IsStuck(importable, remove) == Len(importable) = 0 /\ Len(remove) = 0

\* Step 5: getResourceIdentifiers, buildResourcesToImport, buildReimportDescriptor, the
\* stuck check, logicalIdsToRemove and the dry-run report
GetResourceIdentifiers ==
  /\ pc = "getIdentifiers"
  /\ \/ /\ Fail(Error("GetTemplateSummary failed", FALSE))
        /\ UNCHANGED <<allImportable, logicalIdsToRemove>>
     \/ \E resourceIdentifiers \in DynamicIdentifierChoices :
          LET auto == buildResourcesToImport(decisions.autofix, resourceIdentifiers)
              autoSkipped == SelectSeq(LogicalIds(auto.skipped),
                                       LAMBDA id : id \notin Range(result.skippedResources))
              descriptor(i) == buildReimportDescriptor(decisions.reimport[i].resource,
                                                       decisions.reimport[i].physicalId,
                                                       resourceIdentifiers)
              indices == [i \in 1..Len(decisions.reimport) |-> i]
              good == SelectSeq(indices, LAMBDA i : descriptor(i) # NoDescriptor)
              bad == SelectSeq(indices, LAMBDA i : descriptor(i) = NoDescriptor)
              reimportImportable == [j \in 1..Len(good) |-> descriptor(good[j])]
              all == auto.importable \o reimportImportable
              res == [result EXCEPT
                        !.skippedResources =
                          @ \o autoSkipped
                            \o [j \in 1..Len(bad) |->
                                  decisions.reimport[bad[j]].resource.logicalResourceId],
                        !.errors =
                          @ \o [j \in 1..Len(bad) |->
                                  Error("Could not determine import identifier", FALSE)]]
              removeIds == LogicalIds(decisions.remove)
          IN /\ allImportable' = all
             /\ logicalIdsToRemove' =
                  Dedupe([i \in 1..Len(all) |-> all[i].LogicalResourceId] \o removeIds)
             /\ IF IsStuck(all, decisions.remove)
                THEN /\ result' =
                          [res EXCEPT !.errors =
                             Append(@, Error("Could not determine import identifiers for any selected resources",
                                             FALSE))]
                     /\ pc' = "done"
                     /\ UNCHANGED stage
                ELSE IF IsDryRun(options)
                THEN Succeed([res EXCEPT
                                !.remediatedResources =
                                  [i \in 1..Len(all) |-> all[i].LogicalResourceId],
                                !.removedResources = removeIds])
                ELSE result' = res /\ pc' = "checkpoint" /\ UNCHANGED stage
  /\ UNCHANGED <<given, outcome, options, plane, stackInfo, detectionResult, originalTemplateBody, allDriftedResources, decisions,
                 retainTemplate, resolvedValues, loops, history>>

\* the DELETED resources in scope, removed together with the retain update
deletedLogicalIds ==
  LogicalIds(SelectSeq(allDriftedResources,
                       LAMBDA r : /\ r.stackResourceDriftStatus = "DELETED"
                                  /\ r.logicalResourceId \in Range(logicalIdsToRemove)))
RetainTemplateOf(template, deleted) ==
  IF Len(deleted) > 0
  THEN transformTemplateForRemoval(setRetentionOnAllResources(template), deleted, <<>>).template
  ELSE setRetentionOnAllResources(template)

\* a checkpoint that forgets the logical ids in scope
CheckpointWithoutIds(templateBody, parameters, driftedResourceIds, callsBefore) ==
  [originalTemplateBody |-> templateBody, parameters |-> parameters,
   driftedResourceIds |-> <<>>, callsBefore |-> callsBefore]
\* callsBefore: the mutating calls made when the file is written
RecoveryCheckpoint(templateBody, parameters, driftedResourceIds, callsBefore) ==
  [originalTemplateBody |-> templateBody, parameters |-> parameters,
   driftedResourceIds |-> driftedResourceIds, callsBefore |-> callsBefore]

\* the recovery checkpoint (fs.writeFileSync) and the retain template of step 6
SaveCheckpoint ==
  /\ pc = "checkpoint"
  /\ \E writable \in BOOLEAN :
       IF writable
       THEN /\ checkpoints' =
                 Append(checkpoints,
                        RecoveryCheckpoint(originalTemplateBody, stackInfo.parameters,
                                           logicalIdsToRemove, Len(calls)))
            /\ retainTemplate' = RetainTemplateOf(originalTemplate, deletedLogicalIds)
            /\ pc' = "update_send"
            /\ stage' = "retain"
            /\ UNCHANGED result
       ELSE /\ Fail(Error("EACCES: permission denied", FALSE))
            /\ UNCHANGED <<checkpoints, retainTemplate>>
  /\ UNCHANGED <<given, outcome, options, plane, stackInfo, detectionResult, originalTemplateBody, allDriftedResources, decisions,
                 allImportable, logicalIdsToRemove, resolvedValues, loops, calls, last>>

\* ------------------------------------------------- steps 6 to 10: templates
\* a removal set that takes every drifted resource, whatever was decided for it
driftedIdsToRemove ==
  SelectSeq(LogicalIds(allDriftedResources), LAMBDA id : id \notin Range(deletedLogicalIds))
modifiedIdsToRemove ==
  SelectSeq(logicalIdsToRemove, LAMBDA id : id \notin Range(deletedLogicalIds))
references == collectReferences(retainTemplate, Range(modifiedIdsToRemove))
removalTemplate ==
  transformTemplateForRemoval(retainTemplate, modifiedIdsToRemove, resolvedValues).template

IsAutofix(logicalId) ==
  \E i \in 1..Len(decisions.autofix) : decisions.autofix[i].logicalResourceId = logicalId
AutofixOf(logicalId) ==
  decisions.autofix[CHOOSE i \in 1..Len(decisions.autofix) :
                      decisions.autofix[i].logicalResourceId = logicalId]
\* the body of the loop over allImportable of step 9
ImportedResource(logicalId) ==
  LET originalResource == deepClone(Get(ResourcesOf(originalTemplate), logicalId))
      actual == IF IsAutofix(logicalId) THEN AutofixOf(logicalId).actualProperties ELSE Undefined
      overlaid == IF Truthy(actual) /\ Len(Keys(actual)) > 0
                  THEN Put(originalResource, "Properties", actual)
                  ELSE originalResource
  IN Put(overlaid, "DeletionPolicy", Lit("Retain"))

RECURSIVE ImportOverlay(_, _)
ImportOverlay(template, importables) ==
  IF importables = <<>> THEN template
  ELSE LET logicalId == Head(importables).LogicalResourceId
       IN ImportOverlay(
            IF Truthy(Get(ResourcesOf(originalTemplate), logicalId))
            THEN Put(template, "Resources",
                     Put(Get(template, "Resources"), logicalId, ImportedResource(logicalId)))
            ELSE template,
            Tail(importables))
importTemplate ==
  WithResources(ImportOverlay(deepClone(removalTemplate), allImportable),
                LAMBDA id, r : Put(r, "DeletionPolicy", Lit("Retain")))

\* a restore that leaves the pipeline's Retain on the surviving resources
restoredTemplateKeepingRetain ==
  transformTemplateForRemoval(deepClone(originalTemplate), LogicalIds(decisions.remove),
                              resolvedValues).template

\* step 10 when something was removed for good
restoredTemplate ==
  LET removeIds == LogicalIds(decisions.remove)
      clone == deepClone(originalTemplate)
      without == Put(clone, "Resources",
                     Obj(SelectSeq(Get(clone, "Resources").o, LAMBDA e : e.k \notin Range(removeIds))))
      cleanedTemplate == transformTemplateForRemoval(without, removeIds, resolvedValues).template
  IN WithResources(cleanedTemplate,
       LAMBDA id, r :
         LET policy == Get(Get(ResourcesOf(originalTemplate), id), "DeletionPolicy")
         IN IF Truthy(policy) THEN Put(r, "DeletionPolicy", policy) ELSE Del(r, "DeletionPolicy"))

\* the templateBody argument of the updateStack call of each step
UpdateBody ==
  CASE stage = "retain" -> stringifyTemplate(retainTemplate)
    [] stage = "resolve" -> stringifyTemplate(addResolutionOutputs(retainTemplate, references))
    [] stage = "remove" -> stringifyTemplate(removalTemplate)
    [] stage = "restore" ->
         IF Len(decisions.remove) > 0 THEN stringifyTemplate(restoredTemplate)
         ELSE originalTemplateBody
\* the parameters argument of the updateStack call
UpdateParameters ==
  IF stage = "restore" /\ Len(decisions.remove) = 0 THEN stackInfo.parameters
  ELSE IF Truthy(Get(parseTemplate(UpdateBody), "Parameters")) THEN stackInfo.parameters
  ELSE <<>>

\* --------------------------------------------------- the control plane
InProgress(status) == status \in {"UPDATE_IN_PROGRESS", "IMPORT_IN_PROGRESS"}
Updatable(status) ==
  status \in {"UPDATE_COMPLETE", "UPDATE_ROLLBACK_COMPLETE", "IMPORT_COMPLETE",
              "IMPORT_ROLLBACK_COMPLETE"}
\* what DescribeStacks can answer at the next poll; "NONE": no stack in the response
NextStatuses(status) ==
  CASE status = "UPDATE_IN_PROGRESS" ->
         {"UPDATE_IN_PROGRESS", "UPDATE_COMPLETE", "UPDATE_ROLLBACK_COMPLETE",
          "UPDATE_ROLLBACK_FAILED", "NONE"}
    [] status = "IMPORT_IN_PROGRESS" ->
         {"IMPORT_IN_PROGRESS", "IMPORT_COMPLETE", "IMPORT_ROLLBACK_COMPLETE",
          "IMPORT_ROLLBACK_FAILED", "NONE"}
    [] OTHER -> {status}
\* a resource of the original template that drift detection did not report as DELETED
Live(logicalId) ==
  /\ logicalId \in ResourceIds(originalTemplate)
  /\ \A i \in 1..Len(allDriftedResources) :
       allDriftedResources[i].logicalResourceId = logicalId
         => allDriftedResources[i].stackResourceDriftStatus # "DELETED"
AppliedPolicy(logicalId) == Get(Get(ResourcesOf(applied), logicalId), "DeletionPolicy")
\* live resources of the applied template that a template body leaves out
Dropped(templateBody) ==
  {id \in ResourceIds(applied) \ ResourceIds(parseTemplate(templateBody)) : Live(id)}
\* live resources a template body leaves out while the applied template does not retain them
Unretained(templateBody) ==
  {id \in ResourceIds(applied) \ ResourceIds(parseTemplate(templateBody)) :
     Live(id) /\ AppliedPolicy(id) # Lit("Retain")}
\* whether the resource names id in its DependsOn
DependsOnNames(resource, id) ==
  LET dependsOn == Get(resource, "DependsOn")
  IN \/ IsStr(dependsOn) /\ PlainText(dependsOn) = id
     \/ IsArr(dependsOn) /\ \E i \in 1..Len(dependsOn.a) : PlainText(dependsOn.a[i]) = id
\* the logical ids of the original template that a template refers to and does not define
DanglingIds(template) ==
  {id \in ResourceIds(originalTemplate) \ ResourceIds(template) :
     \/ \E r \in ResourceIds(template) :
          \/ hasUnresolvedReferences(Get(Get(ResourcesOf(template), r), "Properties"), {id})
          \/ DependsOnNames(Get(ResourcesOf(template), r), id)
     \/ hasUnresolvedReferences(Get(template, "Outputs"), {id})}
Call(kind, templateBody) ==
  [kind |-> kind, stage |-> stage, resources |-> ResourceIds(parseTemplate(templateBody)),
   dangling |-> DanglingIds(parseTemplate(templateBody)),
   busy |-> InProgress(stackStatus) \/ changeSetStatus = "CREATE_IN_PROGRESS",
   previous |-> last, dropped |-> Dropped(templateBody),
   unretained |-> Unretained(templateBody),
   checkpoints |-> Len(checkpoints), errors |-> Len(result.errors)]

\* ------------------------------------------------------ CfnClientWrapper
MaxPolls == 2
MaxPhraseFailures == 1
waitForStackUpdateMinutes == 60
waitForChangeSetCreateMinutes == 5
\* a loop that polls once more than its budget
maxAttemptsOffByOne(minutes) == minutes * 6 + 1
maxAttempts(minutes) == minutes * 6

\* how a client call ended; polls: the polls a wait loop made before it gave up
Ended(op, cause, returned, polls) ==
  [op |-> op, cause |-> cause, returned |-> returned, polls |-> polls]
\* the client method running the stack wait loop on behalf of the current step
StackOp ==
  CASE stage = "import" -> "executeChangeSet"
    [] stage = "none" -> "waitForStackUpdate"
    [] OTHER -> "updateStack"

\* remediate after updateStack returned
UpdateReturned ==
  CASE stage = "retain" ->
         /\ pc' = "update_send"
         /\ stage' = IF Len(references) > 0 THEN "resolve" ELSE "remove"
         /\ UNCHANGED result
    [] stage = "resolve" -> Goto("getOutputs")
    [] stage = "remove" ->
         /\ pc' = IF Len(allImportable) > 0 THEN "cs_send" ELSE "update_send"
         /\ stage' = IF Len(allImportable) > 0 THEN "import" ELSE "restore"
         /\ UNCHANGED result
    [] stage = "restore" ->
         Succeed([result EXCEPT
                    !.remediatedResources =
                      [i \in 1..Len(allImportable) |-> allImportable[i].LogicalResourceId],
                    !.removedResources = LogicalIds(decisions.remove)])
    [] OTHER -> Goto("done")
\* remediate after executeChangeSet returned
ExecuteReturned ==
  IF stage = "import"
  THEN pc' = "update_send" /\ stage' = "restore" /\ UNCHANGED result
  ELSE Goto("done")

\* the failed updates so far whose reason text held 'No updates are to be performed'
PhraseFailures ==
  Cardinality({i \in 1..Len(calls) :
                 calls[i].previous.returned /\ calls[i].previous.cause \in {"rolled back", "failed"}})
\* an error thrown inside updateStack meets its catch block; elsewhere it reaches remediate
Thrown(op, cause, error, polls) ==
  IF op = "updateStack" /\ error.phrase
  THEN last' = Ended(op, cause, TRUE, polls) /\ UpdateReturned
  ELSE last' = Ended(op, cause, FALSE, polls) /\ Fail([error EXCEPT !.after = Len(calls')])

\* updateStack: the UpdateStackCommand
SendUpdate ==
  /\ pc = "update_send"
  /\ calls' = Append(calls, Call("updateStack", UpdateBody))
  /\ \E answer \in {"accepted", "nothing to update", "rejected"} :
       CASE answer = "accepted" ->
              /\ Updatable(stackStatus)
              /\ parseTemplate(UpdateBody) # applied
              /\ stackStatus' = "UPDATE_IN_PROGRESS"
              /\ pending' = UpdateBody
              /\ attempts' = 0
              /\ maxWaitMinutes' = waitForStackUpdateMinutes
              /\ pc' = "stack_wait"
              /\ UNCHANGED <<result, stage, last>>
         [] answer = "nothing to update" ->
              /\ Updatable(stackStatus)
              /\ parseTemplate(UpdateBody) = applied
              /\ Thrown("updateStack", "nothing to update",
                        Error("No updates are to be performed.", TRUE), 0)
              /\ UNCHANGED <<stackStatus, pending, attempts, maxWaitMinutes>>
         [] OTHER ->
              /\ Thrown("updateStack", "rejected", Error("ValidationError", FALSE), 0)
              /\ UNCHANGED <<stackStatus, pending, attempts, maxWaitMinutes>>
  /\ UNCHANGED <<given, outcome, options, applied, changeSetStatus, locals, detectPolls, sleepTick, checkpoints>>

\* one iteration of the loop of waitForStackUpdate, and how its caller goes on. The
\* loop is followed poll by poll for `cap` polls; beyond, the status it keeps polling
\* is taken not to change until the loop gives up.
WaitStackStep(cap) ==
  /\ pc = "stack_wait"
  /\ UNCHANGED <<given, outcome, options, changeSetStatus, locals, maxWaitMinutes, detectPolls, sleepTick,
                 checkpoints, calls>>
  /\ \E status \in NextStatuses(stackStatus), phrase \in BOOLEAN :
       LET polls == attempts + 1
           completes == InProgress(stackStatus) /\ status \in {"UPDATE_COMPLETE", "IMPORT_COMPLETE"}
       IN /\ phrase => PhraseFailures < MaxPhraseFailures
          /\ stackStatus' = status
          /\ applied' = IF completes THEN parseTemplate(pending) ELSE applied
          /\ pending' = IF InProgress(status) THEN pending ELSE Null
          /\ CASE status = "NONE" ->
                    /\ ~phrase
                    /\ Thrown(StackOp, "not found", Error("Stack not found", FALSE), 0)
                    /\ attempts' = 0
               [] status \in {"UPDATE_COMPLETE", "IMPORT_COMPLETE"} ->
                    /\ ~phrase
                    /\ last' = Ended(StackOp, "complete", TRUE, 0)
                    /\ IF StackOp = "executeChangeSet" THEN ExecuteReturned ELSE UpdateReturned
                    /\ attempts' = 0
               [] status = "UPDATE_ROLLBACK_COMPLETE" ->
                    /\ Thrown(StackOp, "rolled back", Error("Stack update rolled back", phrase), 0)
                    /\ attempts' = 0
               [] status \in {"UPDATE_ROLLBACK_FAILED", "IMPORT_ROLLBACK_FAILED"} ->
                    /\ Thrown(StackOp, "failed", Error("Stack operation failed", phrase), 0)
                    /\ attempts' = 0
               [] OTHER ->
                    /\ ~phrase
                    /\ IF polls < maxAttempts(maxWaitMinutes) /\ polls <= cap
                       THEN /\ attempts' = polls
                            /\ UNCHANGED <<control, last>>
                       ELSE /\ Thrown(StackOp, "timeout",
                                      Error("Timeout waiting for stack update", FALSE),
                                      maxAttempts(maxWaitMinutes))
                            /\ attempts' = 0
PollStack == WaitStackStep(MaxPolls)

\* getStackInfo after the resolution update, and parseResolvedOutputs
OutputValueOf(value) ==
  IF Has(value, "Ref") THEN Str(<<Resolved(PlainText(Get(value, "Ref")), "")>>)
  ELSE IF Has(value, "Fn::GetAtt")
  THEN Str(<<Resolved(GetAttParts(Get(value, "Fn::GetAtt"))[1],
                      GetAttParts(Get(value, "Fn::GetAtt"))[2])>>)
  ELSE IF Has(value, "Fn::Sub") /\ IsStr(Get(value, "Fn::Sub"))
  THEN Str([i \in 1..Len(Get(value, "Fn::Sub").s) |->
              LET p == Get(value, "Fn::Sub").s[i]
              IN IF p.k = "v" THEN Resolved(p.id, p.attr) ELSE p])
  ELSE value
StackOutputsOf(template) ==
  LET outputs == IF Truthy(Get(template, "Outputs")) THEN Get(template, "Outputs").o ELSE <<>>
  IN [i \in 1..Len(outputs) |->
        [OutputKey |-> outputs[i].k, OutputValue |-> OutputValueOf(Get(outputs[i].v, "Value"))]]
StackOutputs == StackOutputsOf(applied)
Reverse(seq) == [i \in 1..Len(seq) |-> seq[Len(seq) + 1 - i]]

GetOutputs ==
  /\ pc = "getOutputs"
  /\ \/ /\ Fail(Error("Stack not found", FALSE))
        /\ UNCHANGED resolvedValues
     \/ \E outputs \in {StackOutputs, Reverse(StackOutputs)} :
          /\ resolvedValues' = parseResolvedOutputs(outputs, references)
          /\ pc' = "update_send"
          /\ stage' = "remove"
          /\ UNCHANGED result
  /\ UNCHANGED <<given, outcome, options, plane, stackInfo, detectionResult, originalTemplateBody, allDriftedResources, decisions,
                 allImportable, logicalIdsToRemove, retainTemplate, loops, history>>

\* createImportChangeSet: the CreateChangeSetCommand
CreateChangeSet ==
  /\ pc = "cs_send"
  /\ calls' = Append(calls, Call("createImportChangeSet", stringifyTemplate(importTemplate)))
  /\ \E accepted \in BOOLEAN :
       IF accepted
       THEN /\ changeSetStatus' = "CREATE_IN_PROGRESS"
            /\ attempts' = 0
            /\ maxWaitMinutes' = waitForChangeSetCreateMinutes
            /\ pc' = "cs_wait"
            /\ UNCHANGED <<result, stage, last>>
       ELSE /\ Thrown("createImportChangeSet", "rejected", Error("ValidationError", FALSE), 0)
            /\ UNCHANGED <<changeSetStatus, attempts, maxWaitMinutes>>
  /\ UNCHANGED <<given, outcome, options, applied, pending, stackStatus, locals, detectPolls, sleepTick,
                 checkpoints>>

\* one iteration of the loop of waitForChangeSetCreate
WaitChangeSetStep(cap) ==
  /\ pc = "cs_wait"
  /\ UNCHANGED <<given, outcome, options, applied, pending, stackStatus, locals, maxWaitMinutes, detectPolls,
                 sleepTick, checkpoints, calls>>
  /\ \E status \in {"CREATE_IN_PROGRESS", "CREATE_COMPLETE", "FAILED"} :
       LET polls == attempts + 1
       IN /\ changeSetStatus' = status
          /\ CASE status = "CREATE_COMPLETE" ->
                    /\ last' = Ended("createImportChangeSet", "complete", TRUE, 0)
                    /\ IF stage = "import" THEN Goto("cs_execute") ELSE Goto("done")
                    /\ attempts' = 0
               [] status = "FAILED" ->
                    /\ Thrown("createImportChangeSet", "failed",
                              Error("Change set creation failed", FALSE), 0)
                    /\ attempts' = 0
               [] OTHER ->
                    IF polls < maxAttempts(maxWaitMinutes) /\ polls <= cap
                    THEN /\ attempts' = polls
                         /\ UNCHANGED <<control, last>>
                    ELSE /\ Thrown("createImportChangeSet", "timeout",
                                   Error("Timeout waiting for change set creation", FALSE),
                                   maxAttempts(maxWaitMinutes))
                         /\ attempts' = 0
PollChangeSet == WaitChangeSetStep(MaxPolls)

\* executeChangeSet: the ExecuteChangeSetCommand
ExecuteChangeSet ==
  /\ pc = "cs_execute"
  /\ calls' = Append(calls, Call("executeChangeSet", stringifyTemplate(importTemplate)))
  /\ \E accepted \in BOOLEAN :
       IF accepted
       THEN /\ stackStatus' = "IMPORT_IN_PROGRESS"
            /\ pending' = stringifyTemplate(importTemplate)
            /\ changeSetStatus' = "EXECUTE_IN_PROGRESS"
            /\ attempts' = 0
            /\ maxWaitMinutes' = waitForStackUpdateMinutes
            /\ pc' = "stack_wait"
            /\ UNCHANGED <<result, stage, last>>
       ELSE /\ Thrown("executeChangeSet", "rejected", Error("InvalidChangeSetStatus", FALSE), 0)
            /\ UNCHANGED <<stackStatus, pending, changeSetStatus, attempts, maxWaitMinutes>>
  /\ UNCHANGED <<given, outcome, options, applied, locals, detectPolls, sleepTick, checkpoints>>

Next ==
  \/ GetStackInfo
  \/ GetTemplate
  \/ DetectDrift
  \/ PollDetection
  \/ GetDriftedResources
  \/ Prompt
  \/ GetResourceIdentifiers
  \/ SaveCheckpoint
  \/ SendUpdate
  \/ PollStack
  \/ GetOutputs
  \/ CreateChangeSet
  \/ PollChangeSet
  \/ ExecuteChangeSet

Spec == Init /\ [][Next]_vars

\* the run under weak fairness: an awaited call is eventually answered
FairSpec == Spec /\ WF_vars(Next)

\* ------------------------------------- the wait loops called on their own
\* waitForStackUpdate(stackName, maxWaitMinutes) and waitForChangeSetCreate(stackName,
\* changeSetName, maxWaitMinutes) called on an operation in progress, every poll followed
WaitInit ==
  /\ pc \in {"stack_wait", "cs_wait"}
  /\ options = [dryRun |-> FALSE, yes |-> TRUE]
  /\ result = [success |-> FALSE, remediatedResources |-> <<>>, skippedResources |-> <<>>,
               removedResources |-> <<>>, errors |-> <<>>]
  /\ stage = "none"
  /\ attempts = 0
  /\ maxWaitMinutes \in (IF pc = "stack_wait" THEN {1, 2, waitForStackUpdateMinutes}
                         ELSE {1, 2, waitForChangeSetCreateMinutes})
  /\ detectPolls = 0
  /\ sleepTick = FALSE
  /\ applied = TemplateSingle
  /\ pending = (IF pc = "stack_wait" THEN stringifyTemplate(setRetentionOnAllResources(TemplateSingle))
                ELSE Null)
  /\ stackStatus \in (IF pc = "stack_wait" THEN {"UPDATE_IN_PROGRESS", "IMPORT_IN_PROGRESS"}
                      ELSE {"UPDATE_COMPLETE"})
  /\ changeSetStatus = (IF pc = "cs_wait" THEN "CREATE_IN_PROGRESS" ELSE "NONE")
  /\ stackInfo = [parameters |-> <<>>]
  /\ detectionResult = [status |-> "NONE", driftStatus |-> "NONE"]
  /\ originalTemplateBody = Body("yaml", TemplateSingle)
  /\ allDriftedResources = <<>>
  /\ decisions = NoDecisions
  /\ allImportable = <<>>
  /\ logicalIdsToRemove = <<>>
  /\ retainTemplate = Null
  /\ resolvedValues = <<>>
  /\ checkpoints = <<>>
  /\ calls = <<>>
  /\ last = NoCall
  /\ given = Null
  /\ outcome = Null
PollStackEvery == WaitStackStep(maxAttempts(maxWaitMinutes))
PollChangeSetEvery == WaitChangeSetStep(maxAttempts(maxWaitMinutes))
WaitNext == PollStackEvery \/ PollChangeSetEvery
WaitSpec == WaitInit /\ [][WaitNext]_vars

\* ------------------------- the template transformer called on its own
RECURSIVE ImportPrepared(_, _)
\* the loop of prepareTemplateForImport over driftedResources
ImportPrepared(template, driftedResources) ==
  IF driftedResources = <<>> THEN template
  ELSE LET drifted == Head(driftedResources)
           resource == Get(ResourcesOf(template), drifted.logicalResourceId)
           retained == Put(resource, "DeletionPolicy", Lit("Retain"))
       IN ImportPrepared(
            IF Truthy(resource)
            THEN Put(template, "Resources",
                     Put(Get(template, "Resources"), drifted.logicalResourceId,
                         IF Truthy(drifted.actualProperties) /\ Len(Keys(drifted.actualProperties)) > 0
                         THEN Put(retained, "Properties", drifted.actualProperties)
                         ELSE retained))
            ELSE template,
            Tail(driftedResources))
prepareTemplateForImport(template, driftedResources) ==
  ImportPrepared(Del(deepClone(template), "Outputs"), driftedResources)

RECURSIVE ReferencesInto(_, _)
\* whether value holds a direct (Ref) or attribute (Fn::GetAtt) reference to a member of ids
ReferencesInto(value, ids) ==
  IF ~(IsObj(value) \/ IsArr(value)) THEN FALSE
  ELSE IF IsArr(value) THEN \E i \in 1..Len(value.a) : ReferencesInto(value.a[i], ids)
  ELSE IF Has(value, "Ref") /\ IsStr(Get(value, "Ref")) THEN PlainText(Get(value, "Ref")) \in ids
  ELSE IF Has(value, "Fn::GetAtt") /\ GetAttParts(Get(value, "Fn::GetAtt")) # <<>>
  THEN GetAttParts(Get(value, "Fn::GetAtt"))[1] \in ids
  ELSE \E i \in 1..Len(value.o) : ReferencesInto(value.o[i].v, ids)

CascadeRemoval(logicalId, resource, removed) ==
  [logicalResourceId |-> logicalId,
   resourceType |-> PlainText(Get(resource, "Type")),
   dependsOn |-> CHOOSE id \in removed : ReferencesInto(Get(resource, "Properties"), {id})]
RECURSIVE CascadePass(_, _, _, _)
\* one scan of the resources, in template order, against the growing removal set
CascadePass(resources, i, removalSet, found) ==
  IF i > Len(resources) THEN found
  ELSE IF resources[i].k \notin removalSet \cup Range(LogicalIds(found))
          /\ ReferencesInto(Get(resources[i].v, "Properties"),
                            removalSet \cup Range(LogicalIds(found)))
  THEN CascadePass(resources, i + 1, removalSet,
                   Append(found, CascadeRemoval(resources[i].k, resources[i].v,
                                                removalSet \cup Range(LogicalIds(found)))))
  ELSE CascadePass(resources, i + 1, removalSet, found)
RECURSIVE CascadeFixedPoint(_, _, _)
CascadeFixedPoint(resources, removalSet, found) ==
  IF CascadePass(resources, 1, removalSet, found) = found THEN found
  ELSE CascadeFixedPoint(resources, removalSet, CascadePass(resources, 1, removalSet, found))
\* a scan that stops after its first pass
analyzeCascadeRemovalsInOnePass(template, removalSet) ==
  CascadePass(ResourcesOf(template).o, 1, removalSet, <<>>)
analyzeCascadeRemovals(template, removalSet) ==
  CascadeFixedPoint(ResourcesOf(template).o, removalSet, <<>>)

\* C references B before B, which references A; D depends on A by its dependency list
\* only; E and F reference each other
TemplateRefs ==
  Obj(<<KV("Resources",
           Obj(<<KV("A", Obj(<<KV("Type", Lit("AWS::S3::Bucket")),
                               KV("Properties", Obj(<<KV("BucketName", Lit("bucket-a"))>>))>>)),
                 KV("C", Obj(<<KV("Type", Lit("AWS::SNS::Topic")),
                               KV("DeletionPolicy", Lit("Delete")),
                               KV("DependsOn", Arr(<<Lit("A"), Lit("B")>>)),
                               KV("Properties",
                                  Obj(<<KV("X", Obj(<<KV("Fn::GetAtt",
                                                        Arr(<<Lit("B"), Lit("Arn")>>))>>))>>))>>)),
                 KV("B", Obj(<<KV("Type", Lit("AWS::SQS::Queue")),
                               KV("Properties",
                                  Obj(<<KV("Name", Obj(<<KV("Ref", Lit("A"))>>)),
                                        KV("Arn", Obj(<<KV("Fn::GetAtt", Str(<<Dotted("A", "Arn")>>))>>)),
                                        KV("Tag",
                                           Obj(<<KV("Fn::Sub",
                                                    Arr(<<Str(<<Var("V", ""), Txt("-"), Var("A", "")>>),
                                                          Obj(<<KV("V", Obj(<<KV("Ref", Lit("A"))>>)),
                                                                KV("W", Lit("unused"))>>)>>))>>))>>))>>)),
                 KV("D", Obj(<<KV("Type", Lit("AWS::SQS::Queue")),
                               KV("DependsOn", Lit("A")),
                               KV("Properties", Obj(<<>>))>>)),
                 KV("E", Obj(<<KV("Type", Lit("AWS::SNS::Topic")),
                               KV("Properties", Obj(<<KV("Peer", Obj(<<KV("Ref", Lit("F"))>>))>>))>>)),
                 KV("F", Obj(<<KV("Type", Lit("AWS::SNS::Topic")),
                               KV("Properties", Obj(<<KV("Peer", Obj(<<KV("Ref", Lit("E"))>>))>>))>>))>>)),
        KV("Outputs",
           Obj(<<KV("O1", Obj(<<KV("Value", Obj(<<KV("Ref", Lit("A"))>>))>>)),
                 KV("O2", Obj(<<KV("Value",
                                   Obj(<<KV("Fn::Sub",
                                            Str(<<Var("A", "Arn"), Txt("-"), Var("A", ""),
                                                  Txt("-"), Var("AWS::Region", "")>>))>>))>>)),
                 KV("O3", Obj(<<KV("Value", Lit("plain"))>>))>>))>>)
TemplateWithoutResources == Obj(<<KV("Description", Lit("empty"))>>)
\* a template whose own Outputs bear names that start with DriftResolve
TemplateOwnOutputs ==
  Obj(<<KV("Resources",
           Obj(<<KV("A", Obj(<<KV("Type", Lit("AWS::S3::Bucket"))>>)),
                 KV("B", Obj(<<KV("Type", Lit("AWS::SQS::Queue")),
                               KV("Properties",
                                  Obj(<<KV("Name", Obj(<<KV("Ref", Lit("A"))>>)),
                                        KV("Arn", Obj(<<KV("Fn::GetAtt",
                                                          Arr(<<Lit("A"), Lit("Arn")>>))>>))>>))>>))>>)),
        KV("Outputs",
           Obj(<<KV("DriftResolve1x", Obj(<<KV("Value", Lit("mine"))>>))>>))>>)
\* a template with a substitution map that has a key that is also a logical id, and
\* one whose format string names no key of its map
TemplateShadow ==
  Obj(<<KV("Resources",
           Obj(<<KV("A", Obj(<<KV("Type", Lit("AWS::S3::Bucket"))>>)),
                 KV("B", Obj(<<KV("Type", Lit("AWS::SQS::Queue"))>>)),
                 KV("C", Obj(<<KV("Type", Lit("AWS::SNS::Topic")),
                               KV("Properties",
                                  Obj(<<KV("Tag",
                                           Obj(<<KV("Fn::Sub",
                                                    Arr(<<Str(<<Var("A", ""), Txt("-"), Var("B", "")>>),
                                                          Obj(<<KV("A", Lit("shadow"))>>)>>))>>))>>))>>)),
                 KV("D", Obj(<<KV("Type", Lit("AWS::SNS::Topic")),
                               KV("Properties",
                                  Obj(<<KV("Tag",
                                           Obj(<<KV("Fn::Sub",
                                                    Arr(<<Str(<<Var("B", ""), Txt("-x")>>),
                                                          Obj(<<KV("W", Lit("unused"))>>)>>))>>))>>))>>))>>))>>)
TransformerTemplates ==
  {TemplateFull, TemplateSingle, TemplateRefs, TemplateWithoutResources, TemplateOwnOutputs,
   TemplateShadow}

\* the removal sets over a template: every subset of its logical ids and one foreign id,
\* in template order
RemovalSets(template) ==
  {SelectSeq(Keys(ResourcesOf(template)) \o <<"NotInTemplate">>, LAMBDA id : id \in chosen) :
     chosen \in SUBSET (ResourceIds(template) \cup {"NotInTemplate"})}
\* a value table with the runtime value of every reference in references
CompleteTable(refs) ==
  [i \in 1..Len(refs) |->
     KV(refs[i].k,
        Str(<<Resolved(refs[i].k[2],
                       IF Len(refs[i].k) = 3 THEN refs[i].k[3] ELSE "")>>))]
\* a complete table whose values are text that itself reads as a placeholder: "${A}x"
Echoing(complete) ==
  [i \in 1..Len(complete) |->
     KV(complete[i].k, Str(<<Var(complete[i].k[2], ""), Txt("x")>>))]
\* the empty table, the complete one, one that holds its first entry only, an echoing one
TablesUpTo(complete) ==
  {<<>>, complete, IF complete = <<>> THEN <<>> ELSE <<complete[1]>>, Echoing(complete)}
ValueTables(template, ids) ==
  TablesUpTo(CompleteTable(collectReferences(template, Range(ids))))
TransformerInputs ==
  UNION {UNION {{[op |-> "none", template |-> template, ids |-> ids, table |-> table] :
                   table \in ValueTables(template, ids)} :
                ids \in RemovalSets(template)} :
         template \in TransformerTemplates}

run == <<control, options, plane, locals, loops, history>>
\* no run of remediate is going on
Idle ==
  /\ pc = "done"
  /\ options = [dryRun |-> TRUE, yes |-> TRUE]
  /\ result = [success |-> FALSE, remediatedResources |-> <<>>, skippedResources |-> <<>>,
               removedResources |-> <<>>, errors |-> <<>>]
  /\ stage = "none"
  /\ attempts = 0
  /\ maxWaitMinutes = 0
  /\ detectPolls = 0
  /\ sleepTick = FALSE
  /\ applied = TemplateSingle
  /\ pending = Null
  /\ stackStatus = "UPDATE_COMPLETE"
  /\ changeSetStatus = "NONE"
  /\ stackInfo = [parameters |-> <<>>]
  /\ detectionResult = [status |-> "NONE", driftStatus |-> "NONE"]
  /\ originalTemplateBody = Null
  /\ allDriftedResources = <<>>
  /\ decisions = NoDecisions
  /\ allImportable = <<>>
  /\ logicalIdsToRemove = <<>>
  /\ retainTemplate = Null
  /\ resolvedValues = <<>>
  /\ checkpoints = <<>>
  /\ calls = <<>>
  /\ last = NoCall

\* an operation that aliases its argument: what it writes shows in the caller's template
WriteThrough(template, written) == [argument |-> written, result |-> written]
\* const result = deepClone(template), and every write after it goes to result: the
\* caller's template and the operation's result when the operation returns
WriteToCopy(template, written) == [argument |-> template, result |-> written]
\* an operation that only reads its argument
ReadOnly(value, computed) == [argument |-> value, result |-> computed]
\* resolvedValues.set is reached in collect mode only
TableAfter(table, collected, collectMode) == IF collectMode THEN collected ELSE table

TransformerInit == Idle /\ given \in TransformerInputs /\ outcome = Null
Apply(op, heap, table) ==
  /\ given.op = "none"
  /\ given' = [given EXCEPT !.op = op, !.template = heap.argument, !.table = table]
  /\ outcome' = heap.result
  /\ UNCHANGED run
CallSetRetention ==
  Apply("setRetentionOnAllResources",
        WriteToCopy(given.template, setRetentionOnAllResources(given.template)), given.table)
CallTransformForRemoval ==
  Apply("transformTemplateForRemoval",
        WriteToCopy(given.template,
                    transformTemplateForRemoval(given.template, given.ids, given.table).template),
        TableAfter(given.table, CollectValue(given.template, Range(given.ids), given.table), FALSE))
CallAddResolutionOutputs ==
  Apply("addResolutionOutputs",
        WriteToCopy(given.template,
                    addResolutionOutputs(given.template,
                                         collectReferences(given.template, Range(given.ids)))),
        given.table)
CallPrepareForImport ==
  \E actual \in {Undefined, Obj(<<>>), Obj(<<KV("BucketName", Lit("bucket-b"))>>)} :
    Apply("prepareTemplateForImport",
          WriteToCopy(given.template,
                      prepareTemplateForImport(
                        given.template,
                        [i \in 1..Len(given.ids) |->
                           [logicalResourceId |-> given.ids[i], actualProperties |-> actual]])),
          given.table)
CallCollectReferences ==
  Apply("collectReferences",
        ReadOnly(given.template, collectReferences(given.template, Range(given.ids))), given.table)
CallResolve ==
  Apply("resolvePropertyValue",
        ReadOnly(given.template,
                 resolvePropertyValue(given.template, Range(given.ids), given.table, FALSE)),
        TableAfter(given.table, CollectValue(given.template, Range(given.ids), given.table), FALSE))
CallAnalyzeCascade ==
  Apply("analyzeCascadeRemovals",
        ReadOnly(given.template, analyzeCascadeRemovals(given.template, Range(given.ids))),
        given.table)
\* step 7 of remediate as a round trip: the resolution outputs are added, the stack
\* reports its outputs in some order, parseResolvedOutputs reads them back
CallParseResolvedOutputs ==
  LET tokens == collectReferences(given.template, Range(given.ids))
      outputTemplate == addResolutionOutputs(given.template, tokens)
  IN \E outputs \in {StackOutputsOf(outputTemplate), Reverse(StackOutputsOf(outputTemplate))} :
       Apply("parseResolvedOutputs",
             ReadOnly(given.template,
                      [outputTemplate |-> outputTemplate, outputs |-> outputs,
                       resolved |-> parseResolvedOutputs(outputs, tokens)]),
             given.table)
\* resolvePropertyValue in collect mode: the value it returns and the table it leaves
CallCollect ==
  Apply("collect",
        ReadOnly(given.template,
                 [value |-> resolvePropertyValue(given.template, Range(given.ids), given.table, TRUE),
                  table |-> CollectValue(given.template, Range(given.ids), given.table)]),
        given.table)
TransformerNext ==
  \/ CallCollect
  \/ CallParseResolvedOutputs
  \/ CallSetRetention
  \/ CallTransformForRemoval
  \/ CallAddResolutionOutputs
  \/ CallPrepareForImport
  \/ CallCollectReferences
  \/ CallResolve
  \/ CallAnalyzeCascade
TransformerSpec == TransformerInit /\ [][TransformerNext]_vars

\* ============================================================== claims
Succeeded(ending) == ending.cause \in {"none", "complete", "nothing to update"}
LocalErrors ==
  {"Could not determine import identifier",
   "Could not determine import identifiers for any selected resources",
   "All drifted resources are not eligible for import"}
HasError(text) == \E i \in 1..Len(result.errors) : result.errors[i].msg = text
\* an error of result.errors that an external call raised
ExternalFailure == \E i \in 1..Len(result.errors) : result.errors[i].msg \notin LocalErrors
NoMutation == calls = <<>> /\ checkpoints = <<>>
TerminalStatuses ==
  {"UPDATE_COMPLETE", "IMPORT_COMPLETE", "UPDATE_ROLLBACK_COMPLETE", "IMPORT_ROLLBACK_COMPLETE",
   "UPDATE_ROLLBACK_FAILED", "IMPORT_ROLLBACK_FAILED"}
CallOrder(call) ==
  CASE call.kind = "createImportChangeSet" -> 4
    [] call.kind = "executeChangeSet" -> 5
    [] call.stage = "retain" -> 1
    [] call.stage = "resolve" -> 2
    [] call.stage = "remove" -> 3
    [] OTHER -> 6

\* C1: no submitted update or change set leaves out a live resource (drift status not
\* DELETED) whose applied DeletionPolicy is not Retain, and a call that leaves out a
\* live resource comes after a first, retain-everywhere update that ended well.
C1_LiveResourcesRetainedBeforeRemoval ==
  \A i \in 1..Len(calls) :
    /\ calls[i].unretained = {}
    /\ calls[i].dropped # {} =>
         /\ i > 1
         /\ calls[1].stage = "retain"
         /\ Succeeded(calls[2].previous)

\* C2: a run that made a mutating call wrote exactly one checkpoint, before its first
\* mutating call, holding the template text and the parameters fetched before any
\* mutation and the logical ids in scope; without a written checkpoint there is no call.
C2_OneCheckpointBeforeFirstCall ==
  /\ Len(checkpoints) <= 1
  /\ Len(calls) > 0 => Len(checkpoints) = 1
  /\ \A i \in 1..Len(calls) : calls[i].checkpoints = 1
  /\ \A i \in 1..Len(checkpoints) :
       /\ checkpoints[i].callsBefore = 0
       /\ checkpoints[i].originalTemplateBody = originalTemplateBody
       /\ checkpoints[i].parameters = stackInfo.parameters
       /\ checkpoints[i].driftedResourceIds = logicalIdsToRemove
       /\ Len(logicalIdsToRemove) > 0
       /\ Len(calls) = 0 =>
            /\ parseTemplate(checkpoints[i].originalTemplateBody) = applied
            /\ checkpoints[i].parameters = PlaneParameters
C2_Witness ==
  /\ pc = "done"
  /\ result.success
  /\ Len(calls) > 2
  /\ Len(checkpoints) = 1

\* C3: once an external call has failed the run is over: no mutating call follows a
\* call that failed, and the result is a failure that lists an error.
C3_FailureStopsTheRun ==
  /\ \A i \in 1..Len(calls) : Succeeded(calls[i].previous)
  /\ ~Succeeded(last) => pc = "done" /\ ~result.success /\ ExternalFailure
  /\ ExternalFailure => pc = "done" /\ ~result.success

\* C4: mutating calls are made one at a time and in the order retain, resolve, remove,
\* create change set, execute change set, restore; a resolve update only when references
\* were collected, an import only when something is imported, and each call only after
\* the call before it ended well.
C4_OneCallAtATimeInOrder ==
  \A i \in 1..Len(calls) :
    /\ ~calls[i].busy
    /\ calls[i].stage = "resolve" => Len(references) > 0
    /\ calls[i].stage = "import" => Len(allImportable) > 0
    /\ i > 1 => /\ CallOrder(calls[i - 1]) < CallOrder(calls[i])
                /\ Succeeded(calls[i].previous)

\* C5: updateStack returns normally only when the update completed or was rejected as
\* nothing to update; a rollback, a failed status, a missing stack and a timeout surface
\* as errors whatever their reason text.
C5_OnlyNothingToUpdateIsANoOp ==
  last.op = "updateStack" => (last.returned <=> Succeeded(last))

\* C6: drift-detection polling ends: a run waiting for drift detection eventually
\* leaves the wait, even when the control plane keeps answering in progress.
C6_DetectionPollingEnds == (pc = "waitDetect") ~> (pc # "waitDetect")

\* C7: a wait loop never makes more than 6 x maxWaitMinutes polls (360 and 30 with the
\* defaults), and gives up with a timeout exactly when that many polls saw no terminal status.
C7_WaitLoopsAreBounded ==
  /\ pc \in {"stack_wait", "cs_wait"} => attempts < 6 * maxWaitMinutes
  /\ last.cause = "timeout" => last.polls = 6 * maxWaitMinutes /\ pc = "done" /\ ~last.returned
  /\ last.cause = "timeout" /\ last.op = "waitForStackUpdate"
       /\ maxWaitMinutes = waitForStackUpdateMinutes => last.polls = 360
  /\ last.cause = "timeout" /\ last.op = "createImportChangeSet"
       /\ maxWaitMinutes = waitForChangeSetCreateMinutes => last.polls = 30
C7_Witness ==
  /\ last.cause = "timeout"
  /\ last.op = "waitForStackUpdate"
  /\ last.polls = 360

\* C8: waitForStackUpdate is never still polling a stack whose status is terminal: the
\* poll that observes a terminal status ends the wait.
C8_WaitStopsAtTerminalStatus == pc = "stack_wait" => stackStatus \notin TerminalStatuses

C10_DryRunAlwaysSucceeds ==
  options.dryRun =>
    /\ NoMutation
    /\ pc = "done" /\ ~ExternalFailure => result.success
\* C10 amended: a dry run makes no mutating call and writes no checkpoint; when its
\* external calls all succeeded it returns success, listing the resources it would
\* remediate and remove, unless no drifted resource is eligible or no selected resource
\* could be identified, and then it returns a failure.
C10_DryRunNeverMutates ==
  options.dryRun =>
    /\ NoMutation
    /\ pc = "done" /\ ~ExternalFailure =>
         /\ result.success <=>
              ~(HasError("All drifted resources are not eligible for import")
                \/ HasError("Could not determine import identifiers for any selected resources"))
         /\ result.success =>
              /\ result.remediatedResources =
                   [i \in 1..Len(allImportable) |-> allImportable[i].LogicalResourceId]
              /\ result.removedResources = LogicalIds(decisions.remove)
C10_Witness ==
  /\ options.dryRun
  /\ pc = "done"
  /\ result.success
  /\ Len(result.remediatedResources) > 0
  /\ Len(result.removedResources) > 0

ImportableIds == [i \in 1..Len(allImportable) |-> allImportable[i].LogicalResourceId]
\* the selected resources for which step 5 found no import identifier
Unidentified ==
  {id \in Range(LogicalIds(decisions.autofix))
         \cup {decisions.reimport[i].resource.logicalResourceId : i \in 1..Len(decisions.reimport)} :
     id \notin Range(ImportableIds)}
\* the drifted resources the importable filter of step 3 leaves out
NonImportable ==
  {allDriftedResources[i].logicalResourceId : i \in
     {j \in 1..Len(allDriftedResources) : ~isResourceImportable(allDriftedResources[j].resourceType)}}

\* C11: in a run that ended without a failed external call, every non-importable drifted
\* resource and every selected resource without an import identifier is in
\* skippedResources and not in remediatedResources; and when a resource remains to be
\* imported or removed (and the run is no dry run) the run went through its mutating
\* steps and succeeded.
C11_SkippedResourcesAreNotFatal ==
  pc = "done" /\ ~ExternalFailure =>
    /\ NonImportable \subseteq Range(result.skippedResources)
    /\ NonImportable \cap Range(result.remediatedResources) = {}
    /\ ~NothingSelected(decisions) =>
         /\ Unidentified \subseteq Range(result.skippedResources)
         /\ Unidentified \cap Range(result.remediatedResources) = {}
         /\ ~options.dryRun /\ (Len(allImportable) > 0 \/ Len(decisions.remove) > 0) =>
              /\ result.success
              /\ Len(calls) > 0
              /\ result.remediatedResources = ImportableIds
C11_Witness ==
  /\ pc = "done"
  /\ ~ExternalFailure
  /\ ~options.dryRun
  /\ Unidentified # {}
  /\ NonImportable # {}
  /\ result.success
  /\ Len(result.remediatedResources) > 0
  /\ Len(calls) > 0

PolicyOf(template, id) == Get(Get(ResourcesOf(template), id), "DeletionPolicy")
Survivors == ResourceIds(originalTemplate) \ Range(LogicalIds(decisions.remove))
\* the restore update is about to be sent
Restoring == pc = "update_send" /\ stage = "restore"
RestoreIsLast ==
  pc = "done" /\ result.success /\ Len(calls) > 0 =>
    calls[Len(calls)].kind = "updateStack" /\ calls[Len(calls)].stage = "restore"

\* C12 as stated: the last update of a successful run is the restore update; without a
\* permanent removal it submits the original template text, otherwise a template whose
\* resources are exactly the original ones not removed, each with the DeletionPolicy it
\* had in the original (none when it had none).
C12_RestoreIsOriginalMinusRemoved ==
  /\ RestoreIsLast
  /\ Restoring /\ Len(decisions.remove) = 0 => UpdateBody = originalTemplateBody
  /\ Restoring /\ Len(decisions.remove) > 0 =>
       /\ ResourceIds(parseTemplate(UpdateBody)) = Survivors
       /\ \A id \in Survivors :
            PolicyOf(parseTemplate(UpdateBody), id) = PolicyOf(originalTemplate, id)
\* C12 amended: as stated when a resource of the original survives the removal; when
\* every resource was removed the restore update submits the placeholder template
\* (EMPTY_TEMPLATE with the Retain of the removal pass taken off its one resource).
C12_RestoreIsOriginalMinusRemovedOrPlaceholder ==
  /\ RestoreIsLast
  /\ Restoring /\ Len(decisions.remove) = 0 => UpdateBody = originalTemplateBody
  /\ Restoring /\ Len(decisions.remove) > 0 /\ Survivors # {} =>
       /\ ResourceIds(parseTemplate(UpdateBody)) = Survivors
       /\ \A id \in Survivors :
            /\ PolicyOf(parseTemplate(UpdateBody), id) = PolicyOf(originalTemplate, id)
            /\ Get(Get(ResourcesOf(parseTemplate(UpdateBody)), id), "Type")
                 = Get(Get(ResourcesOf(originalTemplate), id), "Type")
  /\ Restoring /\ Len(decisions.remove) > 0 /\ Survivors = {} =>
       /\ ResourceIds(parseTemplate(UpdateBody)) = ResourceIds(EMPTY_TEMPLATE)
       /\ Get(parseTemplate(UpdateBody), "Conditions") = Get(EMPTY_TEMPLATE, "Conditions")
       /\ \A id \in ResourceIds(EMPTY_TEMPLATE) :
            ~Has(Get(ResourcesOf(parseTemplate(UpdateBody)), id), "DeletionPolicy")
C12_Witness ==
  /\ Restoring
  /\ Len(decisions.remove) > 0
  /\ \E id \in Survivors : PolicyOf(originalTemplate, id) = Lit("Delete")
  /\ \E id \in Survivors : ~Truthy(PolicyOf(originalTemplate, id))

Removed == Range(given.ids)
Kept == ResourceIds(given.template) \ Removed

C14_RemovalNeverLeavesNoResource ==
  given.op = "transformTemplateForRemoval" =>
    /\ ResourceIds(outcome) # {}
    /\ Kept = {} => outcome = EMPTY_TEMPLATE
    /\ Kept # {} => ResourceIds(outcome) = Kept
C14_Witness ==
  /\ given.op = "transformTemplateForRemoval"
  /\ given.table # <<>>
  /\ ResourceIds(given.template) # {}
  /\ Kept = {}
  /\ outcome = EMPTY_TEMPLATE

TableIsComplete ==
  \A i \in 1..Len(collectReferences(given.template, Range(given.ids))) :
    MapHas(given.table, collectReferences(given.template, Range(given.ids))[i].k)
\* no value of the table holds text that reads as a placeholder
TableIsPlain ==
  \A i \in 1..Len(given.table) :
    \A j \in 1..Len(given.table[i].v.s) : given.table[i].v.s[j].k # "v"
ResolvedTwice == resolvePropertyValue(outcome, Range(given.ids), given.table, FALSE)

\* C16 (as stated): when the value table has an entry for every reference to a drifted
\* id in the value, resolving the result of a resolve-mode resolution gives that result.
C16_ResolveIsIdempotentOnCompleteTable ==
  given.op = "resolvePropertyValue" /\ TableIsComplete => ResolvedTwice = outcome
\* C16 (amended): the same, for a complete table none of whose values holds placeholder
\* text; a second resolution then leaves the result of the first as it is.
C16_ResolveIsIdempotentOnCompletePlainTable ==
  given.op = "resolvePropertyValue" /\ TableIsComplete /\ TableIsPlain =>
    ResolvedTwice = outcome
C16_Witness ==
  /\ given.op = "resolvePropertyValue"
  /\ given.template = TemplateRefs
  /\ "A" \in Range(given.ids)
  /\ TableIsComplete /\ TableIsPlain
  /\ Len(given.table) >= 2
  /\ outcome # given.template

PropertiesOf(template, id) == Get(Get(ResourcesOf(template), id), "Properties")
RECURSIVE Reaching(_, _)
\* the resources of the template that reach a member of reached through references in
\* their Properties, with reached itself
Reaching(template, reached) ==
  IF \E id \in ResourceIds(template) \ reached :
       ReferencesInto(PropertiesOf(template, id), reached)
  THEN Reaching(template,
                reached \cup {id \in ResourceIds(template) \ reached :
                                ReferencesInto(PropertiesOf(template, id), reached)})
  ELSE reached
Listed == Range(LogicalIds(outcome))

\* C17: analyzeCascadeRemovals(T, R) lists exactly the resources of T outside R that reach
\* R through Ref or Fn::GetAtt references in Properties, each once, with its type and
\* with a dependency it references that is in R or listed before it; a resource tied to
\* R by DependsOn only and a member of R are never listed.
C17_CascadeIsTheReferenceClosure ==
  given.op = "analyzeCascadeRemovals" =>
    /\ Listed = Reaching(given.template, Removed) \ Removed
    /\ Cardinality(Listed) = Len(outcome)
    /\ \A i \in 1..Len(outcome) :
         /\ outcome[i].dependsOn \in
              Removed \cup {outcome[j].logicalResourceId : j \in 1..(i - 1)}
         /\ ReferencesInto(PropertiesOf(given.template, outcome[i].logicalResourceId),
                           {outcome[i].dependsOn})
         /\ outcome[i].resourceType =
              PlainText(Get(Get(ResourcesOf(given.template), outcome[i].logicalResourceId),
                            "Type"))
    /\ \A id \in ResourceIds(given.template) :
         ~ReferencesInto(PropertiesOf(given.template, id), ResourceIds(given.template))
           => id \notin Listed
C17_Witness ==
  /\ given.op = "analyzeCascadeRemovals"
  /\ given.template = TemplateRefs
  /\ given.ids = <<"A", "E">>
  /\ LogicalIds(outcome) = <<"B", "F", "C">>
  /\ outcome[3].dependsOn = "B"

\* ------------------------------------------------------------------ plan
VALID_ACTIONS == {"autofix", "reimport", "remove", "skip"}
\* members every plain object inherits from Object.prototype
ObjectPrototype == {"constructor", "toString", "valueOf", "hasOwnProperty"}
Inherited(name) == [t |-> "fn", name |-> name]
\* object[key]: the own property, else the inherited member, else undefined
Member(object, key) ==
  IF Has(object, key) THEN Get(object, key)
  ELSE IF IsObj(object) /\ key \in ObjectPrototype THEN Inherited(key)
  ELSE Undefined

PlanDecisionOf(r, action) ==
  Obj(<<KV("logicalResourceId", Get(r, "logicalResourceId")),
        KV("resourceType", Get(r, "resourceType")),
        KV("driftStatus", Get(r, "stackResourceDriftStatus")),
        KV("physicalResourceId", Get(r, "physicalResourceId")),
        KV("action", Lit(action))>>)
\* a reimport decision written without its identity string
ReimportDecisionWithoutIdentity(entry) == PlanDecisionOf(entry.resource, "reimport")
ReimportDecisionOf(entry) ==
  Put(PlanDecisionOf(entry.resource, "reimport"), "reimportPhysicalId", entry.physicalId)
RECURSIVE Recorded(_, _)
\* resources[r.logicalResourceId] = r, for each resource in turn
Recorded(resources, rs) ==
  IF rs = <<>> THEN resources
  ELSE Recorded(Put(resources, PlainText(Get(Head(rs), "logicalResourceId")), Head(rs)),
                Tail(rs))
\* the resources of the four buckets in the order buildPlan walks them
InBuildOrder(decided) ==
  decided.autofix \o [i \in 1..Len(decided.reimport) |-> decided.reimport[i].resource]
    \o decided.remove \o decided.skip
planDecisions(decided) ==
  [i \in 1..Len(decided.autofix) |-> PlanDecisionOf(decided.autofix[i], "autofix")]
    \o [i \in 1..Len(decided.reimport) |-> ReimportDecisionOf(decided.reimport[i])]
    \o [i \in 1..Len(decided.remove) |-> PlanDecisionOf(decided.remove[i], "remove")]
    \o [i \in 1..Len(decided.skip) |-> PlanDecisionOf(decided.skip[i], "skip")]
buildPlan(metadata, decided) ==
  Obj(<<KV("version", Num(1)),
        KV("metadata", metadata),
        KV("decisions", Arr(planDecisions(decided))),
        KV("_resources", Recorded(Obj(<<>>), InBuildOrder(decided)))>>)

\* a text: one that JSON.parse rejects, or the JSON text of a value
NotJson == [parses |-> FALSE]
JsonText(value) == [parses |-> TRUE, value |-> value]
\* JSON.stringify writes no property whose value is undefined
serializePlan(plan) == JsonText(deepClone(plan))

PlanError(message, names) == [ok |-> FALSE, message |-> message, names |-> names]
Loaded(plan) == [ok |-> TRUE, plan |-> plan]
NoError == [ok |-> TRUE]
\* the checks of one decision of the loop of loadPlan
DecisionError(decision) ==
  IF decision.t \in {"null", "undef"} THEN PlanError("TypeError", <<>>)
  ELSE IF ~Truthy(Get(decision, "logicalResourceId")) \/ ~Truthy(Get(decision, "action"))
  THEN PlanError("Invalid plan decision: missing logicalResourceId or action", <<decision>>)
  ELSE IF PlainText(Get(decision, "action")) \notin VALID_ACTIONS
  THEN PlanError("Invalid action", <<Get(decision, "action"), Get(decision, "logicalResourceId")>>)
  ELSE IF PlainText(Get(decision, "action")) = "reimport"
          /\ ~Truthy(Get(decision, "reimportPhysicalId"))
  THEN PlanError("has action reimport but no reimportPhysicalId",
                 <<Get(decision, "logicalResourceId")>>)
  ELSE NoError
RECURSIVE DecisionsError(_, _)
\* the first error of the loop over plan.decisions
DecisionsError(list, i) ==
  IF i > Len(list) THEN NoError
  ELSE IF ~DecisionError(list[i]).ok THEN DecisionError(list[i])
  ELSE DecisionsError(list, i + 1)
ResourcesChecked(plan) ==
  IF ~(IsObj(Get(plan, "_resources")) \/ IsArr(Get(plan, "_resources")))
  THEN PlanError("Invalid plan file: missing _resources", <<>>)
  ELSE Loaded(plan)
DecisionsChecked(plan) ==
  IF ~IsArr(Get(plan, "decisions"))
  THEN PlanError("Invalid plan file: decisions must be an array", <<>>)
  ELSE IF ~DecisionsError(Get(plan, "decisions").a, 1).ok
  THEN DecisionsError(Get(plan, "decisions").a, 1)
  ELSE ResourcesChecked(plan)
MetadataChecked(plan, expectedStackName) ==
  IF ~(IsObj(Get(plan, "metadata")) \/ IsArr(Get(plan, "metadata")))
  THEN PlanError("Invalid plan file: missing metadata", <<>>)
  ELSE IF Get(Get(plan, "metadata"), "stackName") # Lit(expectedStackName)
  THEN PlanError("Plan stack name does not match target stack",
                 <<Get(Get(plan, "metadata"), "stackName"), Lit(expectedStackName)>>)
  ELSE DecisionsChecked(plan)
loadPlan(json, expectedStackName) ==
  IF ~json.parses THEN PlanError("Invalid plan file: not valid JSON", <<>>)
  ELSE IF json.value.t = "null" THEN PlanError("TypeError", <<>>)
  ELSE IF Get(json.value, "version") # Num(1)
  THEN PlanError("Unsupported plan version", <<Get(json.value, "version")>>)
  ELSE MetadataChecked(json.value, expectedStackName)

NoBuckets == [autofix |-> <<>>, reimport |-> <<>>, remove |-> <<>>, skip |-> <<>>]
\* the switch of planToDecisions
PushTo(buckets, d, resource) ==
  CASE PlainText(Get(d, "action")) = "autofix" ->
         [buckets EXCEPT !.autofix = Append(@, resource)]
    [] PlainText(Get(d, "action")) = "reimport" ->
         [buckets EXCEPT !.reimport =
            Append(@, [resource |-> resource, physicalId |-> Get(d, "reimportPhysicalId")])]
    [] PlainText(Get(d, "action")) = "remove" ->
         [buckets EXCEPT !.remove = Append(@, resource)]
    [] PlainText(Get(d, "action")) = "skip" ->
         [buckets EXCEPT !.skip = Append(@, resource)]
    [] OTHER -> buckets
SeenIds(plan) ==
  {PlainText(Get(Get(plan, "decisions").a[i], "logicalResourceId")) :
     i \in 1..Len(Get(plan, "decisions").a)}
\* resources in _resources but not in decisions are treated as skip
WithUnseen(plan, buckets) ==
  [ok |-> TRUE,
   allDriftedResources |-> [i \in 1..Len(Get(plan, "_resources").o) |->
                              Get(plan, "_resources").o[i].v],
   decisions |->
     [buckets EXCEPT !.skip =
        @ \o [i \in 1..Len(SelectSeq(Get(plan, "_resources").o,
                                     LAMBDA e : e.k \notin SeenIds(plan))) |->
                SelectSeq(Get(plan, "_resources").o,
                          LAMBDA e : e.k \notin SeenIds(plan))[i].v]]]
RECURSIVE Bucketed(_, _, _)
\* the loop over plan.decisions, from decision i with the buckets filled so far
Bucketed(plan, i, buckets) ==
  IF i > Len(Get(plan, "decisions").a) THEN WithUnseen(plan, buckets)
  ELSE IF ~Truthy(Member(Get(plan, "_resources"),
                         PlainText(Get(Get(plan, "decisions").a[i], "logicalResourceId"))))
  THEN PlanError("not found in plan _resources",
                 <<Get(Get(plan, "decisions").a[i], "logicalResourceId")>>)
  ELSE Bucketed(plan, i + 1,
                PushTo(buckets, Get(plan, "decisions").a[i],
                       Member(Get(plan, "_resources"),
                              PlainText(Get(Get(plan, "decisions").a[i],
                                            "logicalResourceId")))))
planToDecisions(plan) == Bucketed(plan, 1, NoBuckets)
\* --plan: loadPlan, then planToDecisions on what it returned
Continued(loaded) == IF loaded.ok THEN planToDecisions(loaded.plan) ELSE loaded
LoadedDecisions(json, expectedStackName) == Continued(loadPlan(json, expectedStackName))

\* ----------------------------------------------------------- plan inputs
StackName == "stack-1"
PlanMeta == Obj(<<KV("stackName", Lit(StackName)), KV("region", Lit("us-east-1"))>>)
PlanResource(id, type, status, physicalId, actual) ==
  Obj(<<KV("logicalResourceId", Lit(id)), KV("resourceType", Lit(type)),
        KV("physicalResourceId", physicalId), KV("stackResourceDriftStatus", Lit(status)),
        KV("actualProperties", actual)>>)
ResourceA ==
  PlanResource("A", "AWS::S3::Bucket", "MODIFIED", Lit("bucket-a"),
               Obj(<<KV("BucketName", Lit("bucket-a")), KV("Versioning", Lit("on"))>>))
ResourceB == PlanResource("B", "AWS::ECS::Service", "DELETED", Lit("svc"), Undefined)
ResourceC == PlanResource("C", "AWS::SQS::Queue", "MODIFIED", Lit("queue-c"), Obj(<<>>))
ResourceOrders == {<<ResourceA, ResourceB, ResourceC>>, <<ResourceC, ResourceB, ResourceA>>}
IdOf(resource) == PlainText(Get(resource, "logicalResourceId"))
\* the decision set that gives each resource the bucket chosen for it, if any
DecisionsBy(order, chosen) ==
  [autofix |-> SelectSeq(order, LAMBDA r : chosen[IdOf(r)] = "autofix"),
   reimport |-> [i \in 1..Len(SelectSeq(order, LAMBDA r : chosen[IdOf(r)] = "reimport")) |->
                   [resource |-> SelectSeq(order, LAMBDA r : chosen[IdOf(r)] = "reimport")[i],
                    physicalId |-> Lit("arn-of-it")]],
   remove |-> SelectSeq(order, LAMBDA r : chosen[IdOf(r)] = "remove"),
   skip |-> SelectSeq(order, LAMBDA r : chosen[IdOf(r)] = "skip")]
DecisionSets ==
  {DecisionsBy(order, chosen) :
     order \in ResourceOrders, chosen \in [{"A", "B", "C"} -> VALID_ACTIONS \cup {"none"}]}

BaseDecisions ==
  [autofix |-> <<ResourceA>>,
   reimport |-> <<[resource |-> ResourceB, physicalId |-> Lit("arn-of-it")]>>,
   remove |-> <<>>, skip |-> <<ResourceC>>]
BasePlan == deepClone(buildPlan(PlanMeta, BaseDecisions))
BaseList == Get(BasePlan, "decisions").a
WithDecisions(list) == Put(BasePlan, "decisions", Arr(list))
\* the first decision of the plan, rewritten
FirstAs(decision) == WithDecisions(<<decision>> \o Tail(BaseList))
\* a plan file as written, and as a user can have edited it
EditedPlans ==
  {BasePlan,
   Put(BasePlan, "version", Num(2)), Put(BasePlan, "version", Lit("1")),
   Del(BasePlan, "version"),
   Del(BasePlan, "metadata"), Put(BasePlan, "metadata", Null),
   Put(BasePlan, "metadata", Lit("stack-1")),
   Put(BasePlan, "metadata", Put(PlanMeta, "stackName", Lit("stack-2"))),
   Put(BasePlan, "metadata", Del(PlanMeta, "stackName")),
   Del(BasePlan, "decisions"), Put(BasePlan, "decisions", Obj(<<>>)),
   FirstAs(Del(BaseList[1], "logicalResourceId")),
   FirstAs(Put(BaseList[1], "logicalResourceId", Str(<<>>))),
   FirstAs(Del(BaseList[1], "action")),
   FirstAs(Put(BaseList[1], "action", Lit("delete"))),
   FirstAs(Put(BaseList[1], "action", Lit("remove"))),
   FirstAs(Null), FirstAs(Lit("A")),
   WithDecisions(<<BaseList[1], Del(BaseList[2], "reimportPhysicalId"), BaseList[3]>>),
   WithDecisions(<<BaseList[1], Put(BaseList[2], "reimportPhysicalId", Str(<<>>)),
                   BaseList[3]>>),
   WithDecisions(Tail(BaseList)), WithDecisions(<<>>),
   WithDecisions(Append(BaseList, Put(BaseList[1], "action", Lit("remove")))),
   WithDecisions(Append(BaseList, Put(BaseList[3], "logicalResourceId", Lit("Z")))),
   WithDecisions(Append(BaseList, Put(BaseList[3], "logicalResourceId", Lit("constructor")))),
   Del(BasePlan, "_resources"), Put(BasePlan, "_resources", Null),
   Put(BasePlan, "_resources", Del(Get(BasePlan, "_resources"), "A")),
   Put(BasePlan, "_resources", Obj(<<>>))}
PlanTexts == {NotJson, JsonText(Null), JsonText(Lit("plan"))} \cup {JsonText(p) : p \in EditedPlans}
DriftLists ==
  {[modified |-> <<>>, deleted |-> <<>>],
   [modified |-> <<ResourceA>>, deleted |-> <<>>],
   [modified |-> <<>>, deleted |-> <<ResourceB>>],
   [modified |-> <<ResourceA, ResourceC>>, deleted |-> <<ResourceB>>]}
PlanInputs ==
  {[op |-> "none", decisions |-> d, text |-> Null, drifted |-> Null] : d \in DecisionSets}
  \cup {[op |-> "none", decisions |-> Null, text |-> t, drifted |-> Null] : t \in PlanTexts}
  \cup {[op |-> "none", decisions |-> Null, text |-> Null, drifted |-> l] : l \in DriftLists}

PlanInit == Idle /\ given \in PlanInputs /\ outcome = Null
Returned(op, value) ==
  /\ given.op = "none"
  /\ given' = [given EXCEPT !.op = op]
  /\ outcome' = value
  /\ UNCHANGED run
CallBuildPlan ==
  /\ given.decisions # Null
  /\ Returned("buildPlan", planToDecisions(buildPlan(PlanMeta, given.decisions)))
CallSerializePlan ==
  /\ given.decisions # Null
  /\ Returned("serializePlan",
              LoadedDecisions(serializePlan(buildPlan(PlanMeta, given.decisions)), StackName))
CallLoadPlan ==
  /\ given.text # Null
  /\ Returned("loadPlan", LoadedDecisions(given.text, StackName))
CallPromptForDecisions ==
  /\ given.drifted # Null
  /\ \E autoAccept \in BOOLEAN, confirmed \in BOOLEAN,
        choiceM \in [1..Len(given.drifted.modified) -> ModifiedChoices],
        choiceD \in [1..Len(given.drifted.deleted) -> DeletedChoices] :
       Returned("promptForDecisions",
                promptForDecisions(given.drifted.modified, given.drifted.deleted,
                                   autoAccept, choiceM, choiceD, confirmed))
PlanNext ==
  \/ CallBuildPlan
  \/ CallSerializePlan
  \/ CallLoadPlan
  \/ CallPromptForDecisions
PlanSpec == PlanInit /\ [][PlanNext]_vars

\* the decision set as JSON text carries it: properties whose value is undefined are gone
AsWritten(decided) ==
  [autofix |-> [i \in 1..Len(decided.autofix) |-> deepClone(decided.autofix[i])],
   reimport |-> [i \in 1..Len(decided.reimport) |->
                   [resource |-> deepClone(decided.reimport[i].resource),
                    physicalId |-> decided.reimport[i].physicalId]],
   remove |-> [i \in 1..Len(decided.remove) |-> deepClone(decided.remove[i])],
   skip |-> [i \in 1..Len(decided.skip) |-> deepClone(decided.skip[i])]]

\* C18: for a decision set D with pairwise distinct resources, planToDecisions(buildPlan(
\* meta, D)) returns D's four buckets, same resources in the same order, each reimport
\* with its identity string; through serializePlan and loadPlan it returns the same
\* buckets as their JSON text carries them.
C18_PlanRoundTripReturnsTheBuckets ==
  /\ given.op = "buildPlan" => outcome.ok /\ outcome.decisions = given.decisions
  /\ given.op = "serializePlan" =>
       outcome.ok /\ outcome.decisions = AsWritten(given.decisions)
C18_Witness ==
  /\ given.op = "serializePlan"
  /\ Len(given.decisions.reimport) = 1
  /\ Len(given.decisions.autofix) = 1
  /\ Len(given.decisions.skip) = 1
  /\ outcome.ok
  /\ outcome.decisions.reimport[1].physicalId = Lit("arn-of-it")

\* in how many places of the four buckets the resource stands
Occurrences(buckets, resource) ==
  Cardinality({i \in 1..Len(buckets.autofix) : buckets.autofix[i] = resource})
  + Cardinality({i \in 1..Len(buckets.reimport) : buckets.reimport[i].resource = resource})
  + Cardinality({i \in 1..Len(buckets.remove) : buckets.remove[i] = resource})
  + Cardinality({i \in 1..Len(buckets.skip) : buckets.skip[i] = resource})
Undecided(plan) ==
  {e \in Range(Get(plan, "_resources").o) :
     \A i \in 1..Len(Get(plan, "decisions").a) :
       Get(Get(plan, "decisions").a[i], "logicalResourceId") # Lit(e.k)}

\* C19: each drifted resource stands in exactly one of the four buckets: for a plan that
\* loadPlan accepts, planToDecisions puts every _resources entry in exactly one bucket,
\* the ones without a decision in skip; promptForDecisions puts every modified and
\* deleted resource it was given in exactly one bucket, whatever the user chooses.
C19_EveryResourceInExactlyOneBucket ==
  /\ given.op = "loadPlan" /\ outcome.ok =>
       /\ \A e \in Range(Get(given.text.value, "_resources").o) :
            Occurrences(outcome.decisions, e.v) = 1
       /\ \A e \in Undecided(given.text.value) :
            \E i \in 1..Len(outcome.decisions.skip) : outcome.decisions.skip[i] = e.v
  /\ given.op = "promptForDecisions" =>
       \A r \in Range(given.drifted.modified \o given.drifted.deleted) :
         Occurrences(outcome, r) = 1

\* what the claim lists as a defect of a plan text, read for the expected stack name
VersionDefect(plan) == Get(plan, "version") # Num(1)
MetadataDefect(plan) ==
  \/ ~IsObj(Get(plan, "metadata"))
  \/ Get(Get(plan, "metadata"), "stackName") # Lit(StackName)
ListDefect(plan) == ~IsArr(Get(plan, "decisions"))
DecisionDefect(d) ==
  \/ ~Has(d, "logicalResourceId") \/ ~Has(d, "action")
  \/ PlainText(Get(d, "action")) \notin VALID_ACTIONS
  \/ PlainText(Get(d, "action")) = "reimport" /\ ~IsStr(Get(d, "reimportPhysicalId"))
ResourcesDefect(plan) == ~Has(plan, "_resources")
Dangling(plan) ==
  {i \in 1..Len(Get(plan, "decisions").a) :
     ~Has(Get(plan, "_resources"),
          PlainText(Get(Get(plan, "decisions").a[i], "logicalResourceId")))}
Defective(text) ==
  \/ ~text.parses
  \/ VersionDefect(text.value)
  \/ MetadataDefect(text.value)
  \/ ListDefect(text.value)
  \/ \E i \in 1..Len(Get(text.value, "decisions").a) :
       DecisionDefect(Get(text.value, "decisions").a[i])
  \/ ResourcesDefect(text.value)
  \/ Dangling(text.value) # {}
\* the error names the offending value
NamesTheValue(plan, error) ==
  /\ VersionDefect(plan) => error.names = <<Get(plan, "version")>>
  /\ ~VersionDefect(plan) /\ IsObj(Get(plan, "metadata")) /\ MetadataDefect(plan) =>
       error.names = <<Get(Get(plan, "metadata"), "stackName"), Lit(StackName)>>
  /\ error.message = "Invalid action" =>
       \E i \in 1..Len(Get(plan, "decisions").a) :
         error.names = <<Get(Get(plan, "decisions").a[i], "action"),
                         Get(Get(plan, "decisions").a[i], "logicalResourceId")>>
  /\ error.message = "not found in plan _resources" =>
       \E i \in Dangling(plan) :
         error.names = <<Get(Get(plan, "decisions").a[i], "logicalResourceId")>>

\* C20: loadPlan followed by planToDecisions fails, producing no decisions, whenever the
\* text does not parse, version is not 1, metadata is missing or names another stack,
\* decisions is not a list, a decision lacks its logical id or action, has an action
\* outside the four, is a reimport without identity string, _resources is missing, or a
\* decision's logical id is absent from _resources; the error names the offending value.
C20_DefectivePlanYieldsNoDecisions ==
  given.op = "loadPlan" /\ Defective(given.text) =>
    /\ ~outcome.ok
    /\ given.text.parses /\ IsObj(given.text.value) =>
         NamesTheValue(given.text.value, outcome)

\* ----------------------------------------------------- identifier inputs
IdentityTypes ==
  ExtractionTypes \cup {"AWS::KinesisFirehose::DeliveryStream", "AWS::ApiGateway::Stage",
                        "Custom::Something"}
\* the ARN forms of the services, an old-style service ARN, and plain names
Identities ==
  {Arn("s3", <<"my-bucket">>),
   Arn("dynamodb", <<"table", "/", "t1">>),
   Arn("rds", <<"db", ":", "inst">>),
   Arn("lambda", <<"function", ":", "fn">>),
   Arn("lambda", <<"function", ":", "fn", ":", "v2">>),
   Arn("logs", <<"log-group", ":", "lg", ":", "*">>),
   Arn("logs", <<"log-group", ":", "lg">>),
   Arn("sns", <<"topic">>),
   ServiceArn,
   Arn("ecs", <<"service", "/", "svc">>),
   Lit("svc"), Lit("my-bucket"), Lit("arn:short")}
Reported(type, physicalId, actual, context) ==
  [Drifted("R", type, "MODIFIED", physicalId, actual) EXCEPT
     !.physicalResourceIdContext = context]
ReportedResources ==
  {Reported("AWS::S3::Bucket", Lit("bucket-a"),
            Obj(<<KV("BucketName", Lit("bucket-a"))>>), <<>>),
   Reported("AWS::S3::Bucket", Lit("bucket-a"), Undefined, <<>>),
   Reported("AWS::S3::Bucket", Str(<<>>), Undefined, <<>>),
   Reported("AWS::ECS::Service", ServiceArn, Obj(<<KV("Cluster", Lit("c1"))>>), <<>>),
   Reported("AWS::ECS::Service", ServiceArn, Obj(<<KV("DesiredCount", Num(2))>>), <<>>),
   Reported("AWS::ECS::Service", ServiceArn, Undefined,
            <<[key |-> "Cluster", value |-> Lit("c1")]>>),
   Reported("AWS::ECS::Service", Str(<<>>), Undefined, <<>>),
   Reported("Custom::Something", Lit("custom"), Undefined, <<>>)}
DynamicLists ==
  {<<>>,
   <<KV("AWS::S3::Bucket", <<"BucketName">>)>>,
   <<KV("AWS::ECS::Service", <<"ServiceArn", "Cluster">>)>>,
   <<KV("AWS::S3::Bucket", <<>>)>>,
   <<KV("AWS::DynamoDB::Table", <<"TableName", "Region">>)>>}
IdentifierInputs ==
  {[op |-> "none", resourceType |-> type, physicalId |-> id, resources |-> <<>>,
    dynamic |-> <<>>] : type \in IdentityTypes, id \in Identities}
  \cup {[op |-> "none", resourceType |-> "", physicalId |-> Null, resources |-> <<r>>,
         dynamic |-> <<>>] : r \in ReportedResources}
  \cup {[op |-> "none", resourceType |-> "", physicalId |-> Null, resources |-> <<r, q>>,
         dynamic |-> <<>>] :
          r \in ReportedResources, q \in {Reported("AWS::S3::Bucket", Lit("b"), Undefined, <<>>)}}

IdentifierInit == Idle /\ given \in IdentifierInputs /\ outcome = Null
Answered(op, dynamic, value) ==
  /\ given.op = "none"
  /\ given' = [given EXCEPT !.op = op, !.dynamic = dynamic]
  /\ outcome' = value
  /\ UNCHANGED run
CallBuildIdentifierFromPhysicalId ==
  /\ given.physicalId # Null
  /\ Answered("buildIdentifierFromPhysicalId", <<>>,
               buildIdentifierFromPhysicalId(given.resourceType, given.physicalId))
CallBuildReimportDescriptor ==
  /\ given.physicalId # Null
  /\ \E dynamic \in DynamicLists :
       Answered("buildReimportDescriptor", dynamic,
                 buildReimportDescriptor(
                   Drifted("R", given.resourceType, "DELETED", Str(<<>>), Undefined),
                   given.physicalId, dynamic))
CallBuildResourcesToImport ==
  /\ given.resources # <<>>
  /\ \E dynamic \in DynamicLists :
       Answered("buildResourcesToImport", dynamic,
                 buildResourcesToImport(given.resources, dynamic))
IdentifierNext ==
  \/ CallBuildIdentifierFromPhysicalId
  \/ CallBuildReimportDescriptor
  \/ CallBuildResourcesToImport
IdentifierSpec == IdentifierInit /\ [][IdentifierNext]_vars

\* the descriptor's identifier map holds every key the type requires
CoversRequiredKeys(descriptor, dynamic) ==
  \A i \in 1..Len(IdentifierProps(descriptor.ResourceType, dynamic)) :
    MapHas(descriptor.ResourceIdentifier,
           IdentifierProps(descriptor.ResourceType, dynamic)[i])

\* C21: every import descriptor, from buildResourcesToImport or buildReimportDescriptor,
\* carries an identifier map with every key of its type's required-key list (the dynamic
\* list when there is one, else the static one); a resource without such a map is
\* returned as skipped, or as no descriptor, instead.
C21_DescriptorsCoverTheRequiredKeys ==
  /\ given.op = "buildReimportDescriptor" /\ outcome # NoDescriptor =>
       CoversRequiredKeys(outcome, given.dynamic)
  /\ given.op = "buildResourcesToImport" =>
       /\ \A i \in 1..Len(outcome.importable) :
            CoversRequiredKeys(outcome.importable[i], given.dynamic)
       /\ Len(outcome.importable) + Len(outcome.skipped) = Len(given.resources)

\* the name each service's own ARN form stands for
Decodings ==
  {<<"AWS::S3::Bucket", Arn("s3", <<"my-bucket">>), Lit("my-bucket")>>,
   <<"AWS::DynamoDB::Table", Arn("dynamodb", <<"table", "/", "t1">>), Lit("t1")>>,
   <<"AWS::RDS::DBInstance", Arn("rds", <<"db", ":", "inst">>), Lit("inst")>>,
   <<"AWS::Lambda::Function", Arn("lambda", <<"function", ":", "fn">>), Lit("fn")>>,
   <<"AWS::Lambda::Function", Arn("lambda", <<"function", ":", "fn", ":", "v2">>), Lit("fn")>>,
   <<"AWS::Logs::LogGroup", Arn("logs", <<"log-group", ":", "lg", ":", "*">>), Lit("lg")>>,
   <<"AWS::Logs::LogGroup", Arn("logs", <<"log-group", ":", "lg">>), Lit("lg")>>,
   <<"AWS::SNS::Topic", Arn("sns", <<"topic">>), Arn("sns", <<"topic">>)>>}
PrimaryKey(resourceType) == getImportProperties(resourceType)[1]
OneKey(identifier, key) == Len(identifier) = 1 /\ identifier[1].k = key

C23_SubmittedTemplatesAreConsistent ==
  \A i \in 1..Len(calls) : calls[i].dangling = {}

OutputsOf(template) ==
  IF Truthy(Get(template, "Outputs")) THEN Get(template, "Outputs") ELSE Obj(<<>>)
\* what DependsOn is to be once the removed ids are struck from it
DependsOnWithout(dependsOn, removed) ==
  IF IsStr(dependsOn) THEN IF PlainText(dependsOn) \in removed THEN Undefined ELSE dependsOn
  ELSE IF IsArr(dependsOn)
  THEN IF \A i \in 1..Len(dependsOn.a) : PlainText(dependsOn.a[i]) \in removed THEN Undefined
       ELSE Arr(SelectSeq(dependsOn.a, LAMBDA d : PlainText(d) \notin removed))
  ELSE dependsOn
DependsOnIsClean ==
  \A id \in ResourceIds(outcome) :
    /\ ~(\E r \in Removed : DependsOnNames(Get(ResourcesOf(outcome), id), r))
    /\ Get(Get(ResourcesOf(outcome), id), "DependsOn") =
         DependsOnWithout(Get(Get(ResourcesOf(given.template), id), "DependsOn"), Removed)
\* the Output of the given template has every reference to a removed id in the table
AllReplaced(name) ==
  \A key \in Range(MapKeys(collectReferences(Get(OutputsOf(given.template), name), Removed))) :
    MapHas(given.table, key)
OutputsAreClean ==
  /\ \A name \in Range(Keys(OutputsOf(outcome))) :
       ~hasUnresolvedReferences(Get(OutputsOf(outcome), name), Removed)
  /\ Has(outcome, "Outputs") => Len(Keys(Get(outcome, "Outputs"))) > 0
ResolvedOutputsAreKept ==
  \A name \in Range(Keys(OutputsOf(given.template))) :
    AllReplaced(name) =>
      /\ Has(OutputsOf(outcome), name)
      /\ CollectValue(Get(OutputsOf(outcome), name), Removed, <<>>) = <<>>

Tokens == collectReferences(given.template, Removed)
\* the i-th resolution output was added for the i-th token
AddedInOrder ==
  /\ Len(Keys(OutputsOf(outcome.outputTemplate))) =
       Len(Keys(OutputsOf(given.template))) + Len(Tokens)
  /\ \A i \in 1..Len(Tokens) :
       Get(Get(OutputsOf(outcome.outputTemplate), DriftResolveNames[i]), "Value") = Tokens[i].v
\* every token is paired with the value the stack reports for its own reference
ReadBackInOrder ==
  /\ \A i \in 1..Len(Tokens) :
       MapGet(outcome.resolved, Tokens[i].k) = OutputValueOf(Tokens[i].v)
  /\ Range(MapKeys(outcome.resolved)) \subseteq Range(MapKeys(Tokens))

\* C25: for n collected tokens addResolutionOutputs adds exactly n outputs,
\* one per token in collection order, and parseResolvedOutputs gives the i-th token the
\* value of the i-th resolution output, whatever the order of the stack's outputs and
\* whatever other outputs there are; the table has no key that is not a token.
C25_RoundTripThroughOutputs ==
  given.op = "parseResolvedOutputs" => AddedInOrder /\ ReadBackInOrder

\* the tokens of the placeholders of a Fn::Sub text that are references: neither pseudo
\* parameters nor names of the substitution map
Placeholders(pieces, mapKeys) ==
  {SubKey(pieces[i]) : i \in {j \in 1..Len(pieces) :
                               /\ pieces[j].k = "v"
                               /\ ~(pieces[j].attr = "" /\ pieces[j].id \in CFN_PSEUDO_REFS)
                               /\ ~(pieces[j].attr = "" /\ pieces[j].id \in mapKeys)}}
RECURSIVE Mentioned(_)
\* the tokens of every reference (Ref, Fn::GetAtt, Fn::Sub) a value holds
Mentioned(value) ==
  IF ~(IsObj(value) \/ IsArr(value)) THEN {}
  ELSE IF IsArr(value) THEN UNION {Mentioned(value.a[i]) : i \in 1..Len(value.a)}
  ELSE IF Has(value, "Ref") /\ IsStr(Get(value, "Ref"))
  THEN {RefKey(PlainText(Get(value, "Ref")))}
  ELSE IF Has(value, "Fn::GetAtt")
  THEN IF GetAttParts(Get(value, "Fn::GetAtt")) = <<>> THEN {}
       ELSE {GetAttKey(GetAttParts(Get(value, "Fn::GetAtt"))[1],
                       GetAttParts(Get(value, "Fn::GetAtt"))[2])}
  ELSE IF Has(value, "Fn::Sub")
  THEN IF IsStr(Get(value, "Fn::Sub")) THEN Placeholders(Get(value, "Fn::Sub").s, {})
       ELSE IF IsArr(Get(value, "Fn::Sub")) /\ Len(Get(value, "Fn::Sub").a) = 2
       THEN Placeholders(Get(value, "Fn::Sub").a[1].s, Range(Keys(Get(value, "Fn::Sub").a[2])))
              \cup Mentioned(Get(value, "Fn::Sub").a[2])
       ELSE {}
  ELSE UNION {Mentioned(value.o[i].v) : i \in 1..Len(value.o)}
\* the tokens of the references to removed ids in Resources and Outputs
ExpectedTokens ==
  {key \in Mentioned(Get(given.template, "Resources")) \cup Mentioned(Get(given.template, "Outputs")) :
     key[2] \in Removed}
CollectGainsTheTokens ==
  /\ outcome.value = given.template
  /\ Range(MapKeys(outcome.table)) = Range(MapKeys(given.table)) \cup ExpectedTokens
  /\ Cardinality(Range(MapKeys(outcome.table))) = Len(outcome.table)

\* C26: collect mode changes nothing but the table: the value returned equals
\* the input, and the table gains exactly one token for each distinct Ref, Fn::GetAtt or
\* Fn::Sub reference (those in substitution maps included) to a drifted id in Resources
\* or Outputs, none for another id or for a pseudo parameter.
C26_CollectOnlyFillsTheTable ==
  given.op = "collect" => CollectGainsTheTokens

RECURSIVE SubNodes(_)
\* the Fn::Sub nodes of a value, in string form or in array form
SubNodes(value) ==
  IF ~(IsObj(value) \/ IsArr(value)) THEN {}
  ELSE IF IsArr(value) THEN UNION {SubNodes(value.a[i]) : i \in 1..Len(value.a)}
  ELSE IF Has(value, "Fn::Sub")
  THEN IF IsStr(Get(value, "Fn::Sub"))
          \/ (IsArr(Get(value, "Fn::Sub")) /\ Len(Get(value, "Fn::Sub").a) = 2)
       THEN {value} ELSE {}
  ELSE UNION {SubNodes(value.o[i].v) : i \in 1..Len(value.o)}
FormatOf(node) ==
  IF IsStr(Get(node, "Fn::Sub")) THEN Get(node, "Fn::Sub").s ELSE Get(node, "Fn::Sub").a[1].s
MapKeysOf(node) ==
  IF IsArr(Get(node, "Fn::Sub")) THEN Range(Keys(Get(node, "Fn::Sub").a[2])) ELSE {}
\* the placeholder names a drifted resource and the table has its value
Substituted(piece, mapKeys) ==
  /\ piece.k = "v"
  /\ ~(piece.attr = "" /\ piece.id \in CFN_PSEUDO_REFS)
  /\ ~(piece.attr = "" /\ piece.id \in mapKeys)
  /\ piece.id \in Removed
  /\ MapHas(given.table, SubKey(piece))
RECURSIVE AfterSubstitution(_, _)
\* the format string with the values of the table in the place of those placeholders
AfterSubstitution(pieces, mapKeys) ==
  IF pieces = <<>> THEN <<>>
  ELSE (IF Substituted(Head(pieces), mapKeys)
        THEN ToPieces(MapGet(given.table, SubKey(Head(pieces))))
        ELSE <<Head(pieces)>>) \o AfterSubstitution(Tail(pieces), mapKeys)
NoPlaceholderRemains(node) ==
  \A i \in 1..Len(FormatOf(node)) :
    FormatOf(node)[i].k = "v" => Substituted(FormatOf(node)[i], MapKeysOf(node))
\* the keys of the node's map its format string goes on naming
StillReferenced(node) ==
  {key \in MapKeysOf(node) : \E i \in 1..Len(FormatOf(node)) : FormatOf(node)[i] = Var(key, "")}
\* what resolve mode is to return for a Fn::Sub node
SubResolvedAsSpecified(node, resolved) ==
  IF NoPlaceholderRemains(node)
  THEN resolved = Str(AfterSubstitution(FormatOf(node), MapKeysOf(node)))
  ELSE /\ IsObj(resolved) /\ Has(resolved, "Fn::Sub")
       /\ FormatOf(resolved) = AfterSubstitution(FormatOf(node), MapKeysOf(node))
       /\ MapKeysOf(resolved) = StillReferenced(node)

\* C27: resolve mode on a Fn::Sub node, in string form and in array form: when no
\* placeholder is left after substitution the node becomes the plain string; otherwise
\* it stays a Fn::Sub whose format string holds the resolved values in place, pseudo
\* parameters and placeholders of other ids as they were, and whose substitution map,
\* if any, holds exactly the keys the format string still names.
\* (stated for the nodes the resolution changes, none of whose map keys names a drifted id)
C27_SubNodesResolveAsSpecified ==
  given.op = "resolvePropertyValue" =>
    \A node \in SubNodes(given.template) :
      /\ MapKeysOf(node) \cap Removed = {}
      /\ resolvePropertyValue(node, Removed, given.table, FALSE) # node
      => SubResolvedAsSpecified(node,
                                resolvePropertyValue(node, Removed, given.table, FALSE))

\* the keys of the node's substitution map that its format string names
NamedMapKeys(node) ==
  {key \in MapKeysOf(node) : \E i \in 1..Len(FormatOf(node)) : FormatOf(node)[i] = Var(key, "")}
\* the format string of what resolve mode returns for the node still names the key
StillNamed(resolved, key) ==
  /\ IsObj(resolved) /\ Has(resolved, "Fn::Sub")
  /\ \E i \in 1..Len(FormatOf(resolved)) : FormatOf(resolved)[i] = Var(key, "")

\* C28: in an array-form Fn::Sub a placeholder whose name is a key of the substitution
\* map is no reference to a resource: it is never collected as a token and never
\* replaced from the value table, even when a drifted logical id has the same name.
C28_MapKeysAreNotReferences ==
  /\ given.op = "collect" =>
       \A node \in SubNodes(given.template) : \A key \in NamedMapKeys(node) :
         RefKey(key) \notin ExpectedTokens /\ ~MapHas(given.table, RefKey(key))
           => ~MapHas(outcome.table, RefKey(key))
  /\ given.op = "resolvePropertyValue" =>
       \A node \in SubNodes(given.template) : \A key \in NamedMapKeys(node) :
         StillNamed(resolvePropertyValue(node, Removed, given.table, FALSE), key)

ImportedIds == {allImportable[i].LogicalResourceId : i \in 1..Len(allImportable)}
\* C29: a drifted resource that ends in skippedResources stays under the stack's
\* management: its definition is in every template submitted, it is never among a
\* change set's resources to import, and its id is not among the ids in scope of the
\* recovery checkpoint.
C29_SkippedResourcesStayManaged ==
  \A id \in Range(result.skippedResources) :
    /\ \A i \in 1..Len(calls) :
         /\ id \in calls[i].resources
         /\ calls[i].kind = "createImportChangeSet" => id \notin ImportedIds
    /\ \A i \in 1..Len(checkpoints) : id \notin Range(checkpoints[i].driftedResourceIds)
C29_Witness ==
  /\ pc = "done"
  /\ result.success
  /\ result.skippedResources # <<>>
  /\ result.removedResources # <<>>
  /\ Len(checkpoints) = 1
  /\ \E i \in 1..Len(calls) : calls[i].kind = "createImportChangeSet"
  /\ \E i \in 1..Len(calls) : calls[i].stage = "remove"

Disjoint(a, b) == Range(a) \cap Range(b) = {}
\* C30: the RemediationResult remediate returns is coherent on every path: success means
\* errors is empty, failure means errors is not empty, remediatedResources and
\* removedResources are non-empty only with success, and remediatedResources,
\* removedResources and skippedResources are pairwise disjoint.
C30_ResultIsCoherent ==
  pc = "done" =>
    /\ result.success => result.errors = <<>>
    /\ ~result.success => result.errors # <<>>
    /\ result.remediatedResources # <<>> \/ result.removedResources # <<>> => result.success
    /\ Disjoint(result.remediatedResources, result.removedResources)
    /\ Disjoint(result.remediatedResources, result.skippedResources)
    /\ Disjoint(result.removedResources, result.skippedResources)

====
